---- MODULE Spec2Model ----
(***************************************************************************)
(* Model of the security analytics collector (src/src/analytics/           *)
(* collector.py): the rotation-aware log tailer (BaseLogParser), the two   *)
(* bounded buffers, the baseline estimator, the anomaly detector, the      *)
(* threat correlator, the alert generators and their export, and the four  *)
(* loops start_collection runs until the running flag is cleared.          *)
(*                                                                         *)
(* Also the fleet agent (src/src/fleet/agent.py): its request helper, its   *)
(* main loop and the task handlers the loop spawns; and the REST API       *)
(* server (src/src/api/server.py): its token check, its task table and     *)
(* node table and the endpoints that change them.                          *)
(*                                                                         *)
(* The file system and the sampled host (psutil) are the environment.      *)
(* os.stat and open are two separate path lookups, so the tailer's call is *)
(* two steps and the environment may act between them.                     *)
(***************************************************************************)
EXTENDS Integers, Sequences, FiniteSets, TLC

(***************************************************************************)
(* Bounds of the model.                                                    *)
(***************************************************************************)
\* Bytes ever written to the tailed path (each byte gets its own id).
MaxBytes == 3
\* Inode numbers the file system hands out: 1..MaxInode (numbers are reused).
MaxInode == 2

\* Metric samples taken in a run of the detection specification.
MaxSamples == 61
\* Length of the first two phases of a host trajectory (see Scenarios).
PhaseLen == 25
\* Anomaly alerts in the log beyond which no further detection cycle is run.
MaxAnomalyAlerts == 2
\* Entries appended beyond a buffer's initial fill in the buffer specification.
MaxOver == 3
\* Events a parser returns in one batch.
MaxBatch == 2
\* Clock ticks in one second, and the last tick of a run whose clock moves.
TicksPerSecond == 2
MaxClock == 3
\* Calls of the alert generators in a run of the alert-id specification.
MaxCalls == 3
\* Lines in the content handed to a parser.
MaxLines == 2
\* Iterations of the agent's main loop in a run.
MaxPolls == 2
\* Requests the API server handles in a run.
MaxRequests == 3

(***************************************************************************)
(* Program constants.                                                      *)
(***************************************************************************)
\* self.last_inode = None (collector.py:490); None is falsy, like inode 0.
NoInode == 0
\* deque(maxlen=10000), deque(maxlen=1000)
EVENTS_MAXLEN == 10000
METRICS_MAXLEN == 1000
\* _anomaly_detection_loop: len(self.metrics_buffer) >= 10
DETECT_MIN_SAMPLES == 10
\* _detect_anomalies: list(self.metrics_buffer)[-10:]
RECENT_WINDOW == 10
\* _establish_baseline: len(self.metrics_buffer) < 50, [-50:]
BASELINE_MIN_SAMPLES == 50
BASELINE_WINDOW == 50
\* _check_metric_anomaly: z_score > 2.0, z_score > 3.0
Z_ALERT == 2
Z_HIGH == 3
\* default_config['thresholds']
CPU_HIGH == 80
MEMORY_HIGH == 85
DISK_HIGH == 90
NETWORK_CONNECTIONS_HIGH == 1000
\* ComplianceMetricCollector: 'compliance_score': 85.0
COMPLIANCE_SCORE == 85

VARIABLES
    \* ---- the file at log_path (environment) ----
    fs_exists,      \* Path(log_path) names a file
    fs_inode,       \* st_ino of the file the path names (or last named)
    fs_content,     \* its bytes, each a unique id, in file order
    fs_readable,    \* open()+read() of it succeeds
    next_byte,      \* id of the next byte written
    \* ---- BaseLogParser (the tail cursor) ----
    last_position,  \* self.last_position
    last_inode,     \* self.last_inode
    tail_pc,        \* "idle" | "statted" (between os.stat and open)
    \* ---- observations of the tailer's calls ----
    delivered,      \* concatenation of every new_content read so far
    seen,           \* bytes that were in a file when a read of it succeeded
    call,           \* record of the call in progress / last finished
    \* ---- SecurityAnalyticsCollector ----
    config,           \* self.config: the export flags, the log types present
    events_buffer,    \* self.events_buffer, deque(maxlen=10000)
    metrics_buffer,   \* self.metrics_buffer, deque(maxlen=1000)
    baseline_metrics, \* self.baseline_metrics: metric name -> statistics
    alert_log,        \* /var/log/security-alerts.log, one record per line
    metrics_file,     \* /tmp/security_metrics.prom: the gauge lines, {} if absent
    \* ---- the sampled host (environment) ----
    scenario,         \* which trajectory of readings the host follows
    \* ---- observations ----
    samples_made,     \* snapshots appended to metrics_buffer so far
    events_appended,  \* events appended to events_buffer so far
    limits,           \* how far this run goes (fixed by Init)
    cycle,            \* record of the last anomaly-detection cycle
    baseline_source,  \* metrics_buffer as it was when the baseline was set
    \* ---- start_collection and the four loops ----
    running,          \* self.running
    pc,               \* loop -> "unstarted" | "top" | "sleep" | "backoff" | "done"
    threat_indicators,\* self.threat_indicators: key -> ThreatIndicator
    \* ---- environment ----
    clock,            \* time, in ticks
    alert_log_writable, \* open(alert_log, 'a') and the write succeed
    syslog_sink,      \* alerts a syslog daemon has received from the collector
    \* ---- observations ----
    generated,        \* every alert dict built so far, in order
    logged,           \* logger.error messages of the last step
    log_cycle,        \* record of the last log-collection cycle
    \* ---- parts taken on their own ----
    config_file,      \* the file at config_path, as yaml.safe_load finds it
    loaded_config,    \* what _load_config returned, {} before it is called
    log_content,      \* new_content handed to a parser's _parse_content
    parsed_events,    \* the parser called last and the list it returned
    detect,           \* _detect_anomalies between its awaits
    \* ---- the fleet agent and the API server ----
    agent,            \* FleetAgent: its fields, its loop, its task handlers
    app_state         \* AppState of the API server, and the last response

tail_vars == <<fs_exists, fs_inode, fs_content, fs_readable, next_byte,
               last_position, last_inode, tail_pc, delivered, seen, call>>

collector_vars == <<config, events_buffer, metrics_buffer, baseline_metrics,
                    alert_log, metrics_file, scenario, samples_made,
                    events_appended, limits, cycle, baseline_source,
                    running, pc, threat_indicators, clock, alert_log_writable,
                    syslog_sink, generated, logged, log_cycle>>

unit_vars == <<config_file, loaded_config, log_content, parsed_events, detect>>

fleet_vars == <<agent, app_state>>

vars == <<tail_vars, collector_vars, unit_vars, fleet_vars>>

\* config_path is None.
NoConfigFile == [kind |-> "none"]

\* No parser has been called.
NothingParsed == [log_type |-> "none", events |-> <<>>]

\* No _detect_anomalies call is in progress.
NoDetect == [at |-> "idle", recent_metrics |-> <<>>, taken_from |-> <<>>,
             used |-> <<>>]

\* AgentConfig: check_interval and heartbeat_interval, in seconds.
AgentConfig(check_interval, heartbeat_interval) ==
    [check_interval |-> check_interval,
     heartbeat_interval |-> heartbeat_interval]

\* FleetAgent.__init__ under configuration cfg, the host's clock at `now`
\* seconds: no client, not running, no task.
FleetAgent(cfg, now) ==
    [config |-> cfg, client |-> "none", running |-> FALSE,
     active_tasks |-> [task_id \in {} |-> 0],
     pc |-> "new", last_heartbeat |-> 0, last_cleanup |-> 0, now |-> now,
     polls |-> 0, handlers |-> <<>>, started |-> <<>>, requests |-> <<>>,
     logged |-> <<>>]

\* AppState.__init__: no task, no node; no request served yet.
AppState ==
    [active_tasks |-> [task_id \in {} |-> 0],
     registered_nodes |-> [node_id \in {} |-> 0],
     background |-> <<>>, issued |-> 0, now |-> 0, requests |-> 0,
     response |-> [endpoint |-> "none", status_code |-> 0,
                   credentials |-> "none", request |-> <<>>]]

\* The agent and the API server, constructed and untouched.
FleetAtRest ==
    /\ agent = FleetAgent(AgentConfig(60, 300), 0)
    /\ app_state = AppState

\* The parts taken on their own, untouched.
UnitsAtRest ==
    /\ config_file = NoConfigFile
    /\ loaded_config = {}
    /\ log_content = <<>>
    /\ parsed_events = NothingParsed
    /\ detect = NoDetect
    /\ FleetAtRest

Inodes == 1..MaxInode

Range(s) == {s[i] : i \in DOMAIN s}

Max(a, b) == IF a >= b THEN a ELSE b

Min(a, b) == IF a <= b THEN a ELSE b

\* s[from+1 .. Len(s)]: what f.seek(from); f.read() returns. Seeking past the
\* end is allowed and reads nothing.
ReadFrom(s, from) == SubSeq(s, from + 1, Len(s))

\* f.tell() after f.seek(from); f.read(): the end of file, or `from` itself
\* when `from` lies beyond the end.
TellAfterRead(s, from) == Max(from, Len(s))

NoCall ==
    [at_position |-> 0, at_inode |-> NoInode, stat_inode |-> NoInode,
     differs |-> FALSE, result |-> "none", read_inode |-> NoInode,
     read_len |-> 0, chunk |-> <<>>]

(***************************************************************************)
(* Init: BaseLogParser.__init__ and a log file that exists and is empty.   *)
(***************************************************************************)
TailInit ==
    /\ fs_exists = TRUE
    /\ fs_inode \in Inodes
    /\ fs_content = <<>>
    /\ fs_readable \in BOOLEAN
    /\ next_byte = 1
    /\ last_position = 0
    /\ last_inode = NoInode
    /\ tail_pc = "idle"
    /\ delivered = <<>>
    /\ seen = {}
    /\ call = NoCall

(***************************************************************************)
(* Environment: writers and the log rotation tool.                         *)
(***************************************************************************)
\* A writer appends one byte to the file the path names.
FsAppend ==
    /\ fs_exists
    /\ next_byte <= MaxBytes
    /\ fs_content' = Append(fs_content, next_byte)
    /\ next_byte' = next_byte + 1
    /\ UNCHANGED collector_vars
    /\ UNCHANGED <<unit_vars, fleet_vars>>
    /\ UNCHANGED <<fs_exists, fs_inode, fs_readable, last_position, last_inode,
                   tail_pc, delivered, seen, call>>

\* Rotation in one step (rename of a fresh file over the path): the path
\* now names an empty file of another identity.
FsRotate ==
    /\ fs_exists
    /\ \E ino \in Inodes \ {fs_inode} :
           fs_inode' = ino
    /\ fs_content' = <<>>
    /\ fs_readable' \in BOOLEAN
    /\ UNCHANGED collector_vars
    /\ UNCHANGED <<unit_vars, fleet_vars>>
    /\ UNCHANGED <<fs_exists, next_byte, last_position, last_inode, tail_pc,
                   delivered, seen, call>>

\* First half of a two-step rotation: the file is renamed away.
FsRemove ==
    /\ fs_exists
    /\ fs_exists' = FALSE
    /\ fs_content' = <<>>
    /\ UNCHANGED collector_vars
    /\ UNCHANGED <<unit_vars, fleet_vars>>
    /\ UNCHANGED <<fs_inode, fs_readable, next_byte, last_position, last_inode,
                   tail_pc, delivered, seen, call>>

\* Second half: a new file is created at the path; the renamed file still
\* holds the old inode, so the new one has another.
FsCreate ==
    /\ ~fs_exists
    /\ fs_exists' = TRUE
    /\ \E ino \in Inodes \ {fs_inode} :
           fs_inode' = ino
    /\ fs_content' = <<>>
    /\ fs_readable' \in BOOLEAN
    /\ UNCHANGED collector_vars
    /\ UNCHANGED <<unit_vars, fleet_vars>>
    /\ UNCHANGED <<next_byte, last_position, last_inode, tail_pc, delivered,
                   seen, call>>

\* chmod: the collector gains or loses permission to read the file.
FsChmod ==
    /\ fs_exists
    /\ fs_readable' = ~fs_readable
    /\ UNCHANGED collector_vars
    /\ UNCHANGED <<unit_vars, fleet_vars>>
    /\ UNCHANGED <<fs_exists, fs_inode, fs_content, next_byte, last_position,
                   last_inode, tail_pc, delivered, seen, call>>

(***************************************************************************)
(* BaseLogParser.parse_new_events, lines 494-501: os.stat, rotation check, *)
(* identity stored.  os.stat raising (no such file) ends the call in the   *)
(* except branch with nothing changed.                                     *)
(***************************************************************************)
RotationDetected(ino) == last_inode # NoInode /\ ino # last_inode

ParseStat ==
    /\ tail_pc = "idle"
    /\ IF ~fs_exists
         THEN /\ call' = [NoCall EXCEPT !.at_position = last_position,
                                        !.at_inode = last_inode,
                                        !.result = "error"]
              /\ UNCHANGED <<last_position, last_inode, tail_pc>>
         ELSE /\ last_position' =
                     IF RotationDetected(fs_inode) THEN 0 ELSE last_position
              /\ last_inode' = fs_inode
              /\ tail_pc' = "statted"
              /\ call' = [NoCall EXCEPT !.at_position = last_position,
                                        !.at_inode = last_inode,
                                        !.stat_inode = fs_inode,
                                        !.differs = (fs_inode # last_inode),
                                        !.result = "running"]
    /\ UNCHANGED collector_vars
    /\ UNCHANGED <<unit_vars, fleet_vars>>
    /\ UNCHANGED <<fs_exists, fs_inode, fs_content, fs_readable, next_byte,
                   delivered, seen>>

(***************************************************************************)
(* parse_new_events, lines 503-514: open, seek, read, tell.  A failure of  *)
(* any of them (file gone, permission denied, undecodable bytes) ends the  *)
(* call in the except branch, which restores nothing.                      *)
(***************************************************************************)
ReadStep ==
    /\ tail_pc = "statted"
    /\ tail_pc' = "idle"
    /\ IF fs_exists /\ fs_readable
         THEN /\ last_position' = TellAfterRead(fs_content, last_position)
              /\ delivered' = delivered \o ReadFrom(fs_content, last_position)
              /\ seen' = seen \cup Range(fs_content)
              /\ call' = [call EXCEPT !.result = "ok",
                                      !.read_inode = fs_inode,
                                      !.read_len = Len(fs_content),
                                      !.chunk = ReadFrom(fs_content, last_position)]
         ELSE /\ call' = [call EXCEPT !.result = "error"]
              /\ UNCHANGED <<last_position, delivered, seen>>
    /\ UNCHANGED collector_vars
    /\ UNCHANGED fleet_vars
    /\ UNCHANGED <<fs_exists, fs_inode, fs_content, fs_readable, next_byte,
                   last_inode>>

\* The second half of parse_new_events with what _parse_content returns
\* left aside.
ParseRead == ReadStep /\ UNCHANGED unit_vars

(***************************************************************************)
(* The collector: helpers.                                                 *)
(***************************************************************************)
\* s[-n:]
LastN(s, n) == SubSeq(s, Max(1, Len(s) - n + 1), Len(s))

RECURSIVE SumTo(_, _)
\* sum(s[1..n])
SumTo(s, n) == IF n = 0 THEN 0 ELSE s[n] + SumTo(s, n - 1)

RECURSIVE MinTo(_, _)
\* min(s[1..n]), n >= 1
MinTo(s, n) == IF n = 1 THEN s[1] ELSE Min(s[n], MinTo(s, n - 1))

RECURSIVE MaxTo(_, _)
\* max(s[1..n]), n >= 1
MaxTo(s, n) == IF n = 1 THEN s[1] ELSE Max(s[n], MaxTo(s, n - 1))

\* Mutant of DequeAppend: an unbounded list, nothing is ever dropped.
DequeAppendNoEvict(buf, e, maxlen) == Append(buf, e)

\* deque.appendleft(e): the entry goes to the head, a full deque drops its
\* newest entry.
DequeAppendLeft(buf, e, maxlen) ==
    LET grown == <<e>> \o buf
    IN  IF Len(grown) > maxlen THEN SubSeq(grown, 1, maxlen) ELSE grown

\* deque(maxlen=maxlen).append(e): a full deque drops its oldest entry.
DequeAppend(buf, e, maxlen) ==
    IF Len(buf) >= maxlen THEN Append(Tail(buf), e) ELSE Append(buf, e)

\* The metrics _detect_anomalies checks and _establish_baseline summarises,
\* in the order of the code.
MonitoredMetrics == <<"cpu_usage", "memory_usage", "network_connections">>

\* [m.<metric> for m in samples]
Values(samples, metric) == [i \in 1..Len(samples) |-> samples[i][metric]]

(***************************************************************************)
(* The sampled host.  Its readings follow one of a few trajectories, each  *)
(* constant over three phases: samples 1..PhaseLen, the next PhaseLen      *)
(* samples, and all later ones.  Readings are whole numbers.               *)
(***************************************************************************)
Scenarios ==
    << [cpu |-> <<10, 20, 25>>, memory |-> <<10, 20, 26>>,
        network |-> <<10, 20, 30>>, disk |-> <<50, 50, 50>>],
       [cpu |-> <<10, 20, 31>>, memory |-> <<10, 20, 20>>,
        network |-> <<10, 20, 26>>, disk |-> <<50, 50, 50>>],
       [cpu |-> <<10, 10, 10>>, memory |-> <<10, 20, 31>>,
        network |-> <<10, 20, 20>>, disk |-> <<50, 50, 50>>],
       [cpu |-> <<10, 20, 26>>, memory |-> <<10, 10, 10>>,
        network |-> <<10, 20, 31>>, disk |-> <<50, 50, 50>>],
       [cpu |-> <<79, 80, 81>>, memory |-> <<84, 85, 86>>,
        network |-> <<999, 1000, 1001>>, disk |-> <<89, 90, 91>>] >>

PhaseOf(k) == IF k <= PhaseLen THEN 1 ELSE IF k <= 2 * PhaseLen THEN 2 ELSE 3

\* What psutil reports when the k-th sample is taken.
HostAt(scn, k) ==
    [cpu_percent |-> Scenarios[scn].cpu[PhaseOf(k)],
     memory_percent |-> Scenarios[scn].memory[PhaseOf(k)],
     net_connections |-> Scenarios[scn].network[PhaseOf(k)],
     disk_percent |-> [mount \in {"/"} |-> Scenarios[scn].disk[PhaseOf(k)]],
     pids |-> 120]

\* {}: what a sub-collector returns from its except branch.
EmptyDict == [key \in {} |-> 0]

\* self.metric_collectors, in order.
MetricCollectors == <<"system", "network", "security", "compliance">>

\* The sub-collectors whose psutil calls can raise; the other two return
\* constants.
Fallible == {"system", "network"}

\* logger.error in the except branch of a sub-collector.
CollectorError(collector) ==
    CASE collector = "system" -> "System metrics collection failed"
      [] collector = "network" -> "Network metrics collection failed"

\* collect_metrics of one sub-collector; failed: a psutil call raised.
CollectMetrics(collector, host, failed) ==
    CASE collector = "system" ->
           IF failed THEN EmptyDict
           ELSE [cpu_usage |-> host.cpu_percent,
                 memory_usage |-> host.memory_percent,
                 disk_usage |-> host.disk_percent,
                 active_processes |-> host.pids]
      [] collector = "network" ->
           IF failed THEN EmptyDict
           ELSE [network_connections |-> host.net_connections]
      [] collector = "security" ->
           [failed_logins |-> 0, security_alerts |-> 0]
      [] collector = "compliance" ->
           [compliance_score |-> COMPLIANCE_SCORE]

RECURSIVE MergedTo(_, _, _)
\* metrics after metrics.update(...) with the results of the first n
\* sub-collectors.
MergedTo(host, failing, n) ==
    IF n = 0 THEN EmptyDict
    ELSE CollectMetrics(MetricCollectors[n], host, MetricCollectors[n] \in failing)
         @@ MergedTo(host, failing, n - 1)

\* What the sub-collectors return for the k-th sample, merged, when none fails.
ReadingAt(scn, k) == MergedTo(HostAt(scn, k), {}, Len(MetricCollectors))

\* Mutant of MetricsGet: metrics.get(key), which gives None (-1 here) for a
\* missing key.
MetricsGetNone(metrics, key, default) ==
    IF key \in DOMAIN metrics THEN metrics[key] ELSE -1

\* metrics.get(key, default)
MetricsGet(metrics, key, default) ==
    IF key \in DOMAIN metrics THEN metrics[key] ELSE default

\* SystemMetrics(...) built from the merged sub-collector results; id is the
\* snapshot's insertion number (the identity of the object).
SystemMetrics(k, metrics) ==
    [id |-> k,
     cpu_usage |-> MetricsGet(metrics, "cpu_usage", 0),
     memory_usage |-> MetricsGet(metrics, "memory_usage", 0),
     disk_usage |-> MetricsGet(metrics, "disk_usage", EmptyDict),
     network_connections |-> MetricsGet(metrics, "network_connections", 0),
     active_processes |-> MetricsGet(metrics, "active_processes", 0),
     failed_logins |-> MetricsGet(metrics, "failed_logins", 0),
     security_alerts |-> MetricsGet(metrics, "security_alerts", 0),
     compliance_score |-> MetricsGet(metrics, "compliance_score", 0)]

(***************************************************************************)
(* Events as the five parsers build them: (event_type, source, severity).  *)
(***************************************************************************)
LogTypes == {"auth", "syslog", "audit", "apache", "nginx"}

\* The events self.log_parsers[log_type] can return.
ParserEvents(log_type) ==
    CASE log_type = "auth" ->
           { [event_type |-> "authentication_failure", source |-> "auth_log",
              severity |-> "medium"],
             [event_type |-> "authentication_success", source |-> "auth_log",
              severity |-> "info"] }
      [] log_type = "syslog" ->
           { [event_type |-> "system_event", source |-> "syslog",
              severity |-> "high"],
             [event_type |-> "system_event", source |-> "syslog",
              severity |-> "medium"] }
      [] log_type = "audit" ->
           { [event_type |-> "system_call", source |-> "audit_log",
              severity |-> "info"] }
      [] log_type = "apache" ->
           { [event_type |-> "web_access", source |-> "apache_log",
              severity |-> "medium"],
             [event_type |-> "web_access", source |-> "apache_log",
              severity |-> "low"] }
      [] log_type = "nginx" ->
           { [event_type |-> "web_access", source |-> "nginx_log",
              severity |-> "medium"],
             [event_type |-> "web_access", source |-> "nginx_log",
              severity |-> "low"] }

(***************************************************************************)
(* _parse_content of the five parsers.  A string is the sequence of its    *)
(* pieces: words, the blank " " and the line feed "\n"; the patterns the   *)
(* parsers look for are made of whole pieces.                              *)
(***************************************************************************)
Whitespace == {" ", "\n"}

RECURSIVE LStrip(_)
LStrip(str) ==
    IF str # <<>> /\ Head(str) \in Whitespace THEN LStrip(Tail(str)) ELSE str

RECURSIVE RStrip(_)
RStrip(str) ==
    IF str # <<>> /\ str[Len(str)] \in Whitespace
      THEN RStrip(SubSeq(str, 1, Len(str) - 1))
      ELSE str

\* str.strip()
Strip(str) == RStrip(LStrip(str))

\* content.strip(), first thing in every _parse_content.
StripContent(str) == Strip(str)

RECURSIVE Split(_)
\* str.split('\n'): the pieces between line feeds; one empty string for "".
Split(str) ==
    IF \E i \in DOMAIN str : str[i] = "\n"
      THEN LET i == CHOOSE i \in DOMAIN str :
                        /\ str[i] = "\n"
                        /\ \A j \in 1..(i - 1) : str[j] # "\n"
           IN  <<SubSeq(str, 1, i - 1)>> \o Split(SubSeq(str, i + 1, Len(str)))
      ELSE <<str>>

\* pattern in str
Contains(str, pattern) ==
    \E i \in 0..(Len(str) - Len(pattern)) :
        SubSeq(str, i + 1, i + Len(pattern)) = pattern

\* str.startswith(prefix)
StartsWith(str, prefix) ==
    Len(str) >= Len(prefix) /\ SubSeq(str, 1, Len(prefix)) = prefix

LowerPiece(piece) ==
    CASE piece = "ERROR" -> "error"
      [] piece = "Warning" -> "warning"
      [] piece = "CRITICAL" -> "critical"
      [] piece = "Alert" -> "alert"
      [] OTHER -> piece

\* Mutant of Lower: the line is searched as written.
LowerNot(str) == str

\* str.lower()
Lower(str) == [i \in DOMAIN str |-> LowerPiece(str[i])]

\* any(pattern in str for pattern in patterns)
ContainsAny(str, patterns) == \E pattern \in patterns : Contains(str, pattern)

\* network_info / file_info of an event that has none (None): .get finds
\* nothing in it, and it is falsy like an empty dict.
NoInfo == [key \in {} |-> ""]

\* An Optional field of a dataclass left at its default.
None == "None"

\* Mutant of Parsed: the parser takes the peer address from the line.
ParsedWithAddress(event_type, source, severity, line) ==
    [event_type |-> event_type, source |-> source, severity |-> severity,
     log_line |-> line, user |-> None, process |-> None,
     network_info |-> [key \in {"source_ip"} |-> "203.0.113.7"],
     file_info |-> NoInfo]

\* SecurityEvent(...) as far as the parsers differ in it.
Parsed(event_type, source, severity, line) ==
    [event_type |-> event_type, source |-> source, severity |-> severity,
     log_line |-> line, user |-> None, process |-> None,
     network_info |-> NoInfo, file_info |-> NoInfo]

\* Mutant of AuthLine: the tests in the other order.
AuthLineAcceptedFirst(line) ==
    IF Contains(line, <<"Accepted", " ", "password">>)
      THEN <<Parsed("authentication_success", "auth_log", "info", line)>>
      ELSE IF Contains(line, <<"Failed", " ", "password">>)
             THEN <<Parsed("authentication_failure", "auth_log", "medium", line)>>
             ELSE <<>>

\* AuthLogParser: the body of the loop for a non-empty line.
AuthLine(line) ==
    IF Contains(line, <<"Failed", " ", "password">>)
      THEN <<Parsed("authentication_failure", "auth_log", "medium", line)>>
      ELSE IF Contains(line, <<"Accepted", " ", "password">>)
             THEN <<Parsed("authentication_success", "auth_log", "info", line)>>
             ELSE <<>>

\* Mutant of SyslogSeverity: the keyword that matched is the severity.
SyslogSeverityKeyword(line) ==
    IF ContainsAny(Lower(line), {<<"critical">>, <<"alert">>})
      THEN "high"
      ELSE IF Contains(Lower(line), <<"warning">>) THEN "warning" ELSE "medium"

\* 'high' if any(kw in line.lower() for kw in ['critical', 'alert']) else 'medium'
SyslogSeverity(line) ==
    IF ContainsAny(Lower(line), {<<"critical">>, <<"alert">>})
      THEN "high" ELSE "medium"

\* SyslogParser: the body of the loop for a non-empty line.
SyslogLine(line) ==
    IF ContainsAny(Lower(line),
                   {<<"error">>, <<"warning">>, <<"critical">>, <<"alert">>})
      THEN <<Parsed("system_event", "syslog", SyslogSeverity(line), line)>>
      ELSE <<>>

\* AuditLogParser: the body of the loop for a non-empty line.
AuditLine(line) ==
    IF ~StartsWith(line, <<"type=">>)
      THEN <<>>
      ELSE IF Contains(line, <<"type=", "SYSCALL">>)
             THEN <<Parsed("system_call", "audit_log", "info", line)>>
             ELSE <<>>

\* 'medium' if ' 403 ' in line else 'low'
WebSeverity(line) ==
    IF Contains(line, <<" ", "403", " ">>) THEN "medium" ELSE "low"

\* ApacheLogParser / NginxLogParser: the body of the loop for a non-empty
\* line.
WebLine(source, line) ==
    IF ContainsAny(line, {<<" ", "403", " ">>, <<" ", "404", " ">>,
                          <<" ", "500", " ">>})
      THEN <<Parsed("web_access", source, WebSeverity(line), line)>>
      ELSE <<>>

\* What the parser of a log type appends for one line of the split content.
LineEvents(log_type, line) ==
    IF line = <<>>
      THEN <<>>
      ELSE CASE log_type = "auth" -> AuthLine(line)
             [] log_type = "syslog" -> SyslogLine(line)
             [] log_type = "audit" -> AuditLine(line)
             [] log_type = "apache" -> WebLine("apache_log", line)
             [] log_type = "nginx" -> WebLine("nginx_log", line)

RECURSIVE EventsOf(_, _, _)
\* events after the loop has gone through lines[1..n].
EventsOf(log_type, lines, n) ==
    IF n = 0 THEN <<>>
    ELSE EventsOf(log_type, lines, n - 1) \o LineEvents(log_type, lines[n])

\* self.log_parsers[log_type]._parse_content(content)
ParseContent(log_type, content) ==
    LET lines == Split(StripContent(content))
    IN  EventsOf(log_type, lines, Len(lines))

\* A parser is handed new content.
ParseCall ==
    /\ parsed_events = NothingParsed
    /\ \E log_type \in LogTypes :
           parsed_events' = [log_type |-> log_type,
                             events |-> ParseContent(log_type, log_content)]
    /\ UNCHANGED <<config_file, loaded_config, log_content, detect>>
    /\ UNCHANGED fleet_vars
    /\ UNCHANGED tail_vars
    /\ UNCHANGED collector_vars

\* info.get(key), for a dict or None; a missing key gives None, which is as
\* falsy as the empty string.
Get(info, key) == IF key \in DOMAIN info THEN info[key] ELSE ""

\* SecurityEvent(...) as a parser builds it at time `now` from what it matched;
\* id is the event's number in order of creation (the identity of the object).
SecurityEvent(k, e, now) ==
    [id |-> k, timestamp |-> now, event_type |-> e.event_type,
     source |-> e.source, severity |-> e.severity,
     user |-> IF "user" \in DOMAIN e THEN e.user ELSE None,
     process |-> IF "process" \in DOMAIN e THEN e.process ELSE None,
     network_info |-> IF "network_info" \in DOMAIN e THEN e.network_info ELSE NoInfo,
     file_info |-> IF "file_info" \in DOMAIN e THEN e.file_info ELSE NoInfo]

(***************************************************************************)
(* Alert ids.  The id is the md5 hex digest (first 16 digits) of fields    *)
(* joined by "_".  A string is modelled by its "_"-separated pieces, so    *)
(* joining is concatenation; the digest is taken to be collision-free.     *)
(***************************************************************************)
Tokens(str) ==
    CASE str = "cpu_usage" -> <<"cpu", "usage">>
      [] str = "memory_usage" -> <<"memory", "usage">>
      [] str = "network_connections" -> <<"network", "connections">>
      [] str = "authentication_failure" -> <<"authentication", "failure">>
      [] str = "authentication_success" -> <<"authentication", "success">>
      [] str = "system_event" -> <<"system", "event">>
      [] str = "system_call" -> <<"system", "call">>
      [] str = "web_access" -> <<"web", "access">>
      [] str = "auth_log" -> <<"auth", "log">>
      [] str = "audit_log" -> <<"audit", "log">>
      [] str = "apache_log" -> <<"apache", "log">>
      [] str = "nginx_log" -> <<"nginx", "log">>
      [] OTHER -> <<str>>

RECURSIVE JoinTo(_, _)
\* "_".join(parts[1..n])
JoinTo(parts, n) ==
    IF n = 0 THEN <<>> ELSE JoinTo(parts, n - 1) \o Tokens(parts[n])

\* hashlib.md5(data.encode()).hexdigest()[:16]
Md5Hex16(data) == <<"md5">> \o data

\* int(time.time())
Seconds(now) == now \div TicksPerSecond

\* _generate_alert_id: the event's own fields only.
GenerateAlertId(event, prefix) ==
    Md5Hex16(JoinTo(<<prefix, ToString(event.timestamp), event.event_type,
                      event.source>>, 4))

\* Mutant of ResourceAlertId: the id carries the clock at full resolution.
ResourceAlertIdFineClock(resource_type, value, now) ==
    Md5Hex16(JoinTo(<<resource_type, ToString(value), ToString(now)>>, 3))

\* _generate_resource_alert, line 400.
ResourceAlertId(resource_type, value, now) ==
    Md5Hex16(JoinTo(<<resource_type, ToString(value), ToString(Seconds(now))>>, 3))

\* _generate_anomaly_alert, line 418.
AnomalyAlertId(metric_name, now) ==
    Md5Hex16(JoinTo(<<"anomaly", metric_name, ToString(Seconds(now))>>, 3))

(***************************************************************************)
(* Alerts and their export.                                                *)
(***************************************************************************)
SecurityAlert(event, now) ==
    [type |-> "security_alert", timestamp |-> now, event |-> event,
     alert_id |-> GenerateAlertId(event, "sec")]

ThreatAlert(event, threat, now) ==
    [type |-> "threat_alert", timestamp |-> now, event |-> event,
     threat |-> threat, alert_id |-> GenerateAlertId(event, "threat")]

ResourceAlert(resource_type, value, mount, now) ==
    [type |-> "resource_alert", timestamp |-> now,
     resource_type |-> resource_type, value |-> value, mount |-> mount,
     alert_id |-> ResourceAlertId(resource_type, value, now)]

AnomalyAlert(metric_name, current_value, baseline, severity, now) ==
    [type |-> "anomaly_alert", timestamp |-> now, metric_name |-> metric_name,
     current_value |-> current_value, baseline |-> baseline,
     severity |-> severity, alert_id |-> AnomalyAlertId(metric_name, now)]

\* _export_alert for the alerts a cycle tries to emit, in order: each is
\* written to the log; with export.syslog set the call then reaches
\* self._send_syslog_alert, which the class does not define, and the
\* AttributeError ends the cycle after the first alert.
Exported(cfg, alerts) ==
    IF cfg.syslog /\ alerts # <<>> THEN <<alerts[1]>> ELSE alerts

ExportRaises(cfg, alerts) == cfg.syslog /\ alerts # <<>>

\* What the alerts handed to _export_alert add to the log: nothing when
\* the open or the write fails.
Written(writable, alerts) == IF writable THEN alerts ELSE <<>>

\* logger.error of the except branch, once per alert whose write failed.
WriteFailures(writable, alerts) ==
    IF writable THEN <<>>
    ELSE [i \in 1..Len(alerts) |-> "Failed to write alert to file"]

(***************************************************************************)
(* _analyze_metrics: the resource alerts of one snapshot, in code order.   *)
(***************************************************************************)
ResourceAlerts(m, now) ==
    (IF m.cpu_usage > CPU_HIGH
        THEN <<ResourceAlert("cpu", m.cpu_usage, "None", now)>> ELSE <<>>)
    \o (IF m.memory_usage > MEMORY_HIGH
        THEN <<ResourceAlert("memory", m.memory_usage, "None", now)>> ELSE <<>>)
    \o (IF "/" \in DOMAIN m.disk_usage /\ m.disk_usage["/"] > DISK_HIGH
        THEN <<ResourceAlert("disk", m.disk_usage["/"], "/", now)>> ELSE <<>>)
    \o (IF m.network_connections > NETWORK_CONNECTIONS_HIGH
        THEN <<ResourceAlert("network", m.network_connections, "None", now)>>
        ELSE <<>>)

(***************************************************************************)
(* _establish_baseline.  Statistics are kept exactly, scaled by the window *)
(* length n: mean_x_n = n * mean = sum(values), and                        *)
(* std_x_n_sq = (n * std)^2 = n^2 * variance, where the code's             *)
(* variance = sum((x - mean)^2) / n = sum((n*x - sum)^2) / n^3.            *)
(***************************************************************************)
\* Mutant of BaselineOf: the sample standard deviation (divisor n - 1).
BaselineOfSampleStd(values) ==
    LET n == Len(values)
        total == SumTo(values, n)
        sq_dev == [i \in 1..n |-> (n * values[i] - total) * (n * values[i] - total)]
    IN  [n |-> n,
         mean_x_n |-> total,
         std_x_n_sq |-> SumTo(sq_dev, n) \div (n - 1),
         min |-> MinTo(values, n),
         max |-> MaxTo(values, n)]

BaselineOf(values) ==
    LET n == Len(values)
        total == SumTo(values, n)
        sq_dev == [i \in 1..n |-> (n * values[i] - total) * (n * values[i] - total)]
    IN  [n |-> n,
         mean_x_n |-> total,
         std_x_n_sq |-> SumTo(sq_dev, n) \div n,
         min |-> MinTo(values, n),
         max |-> MaxTo(values, n)]

NoBaseline == [m \in {} |-> 0]

\* Mutant of EstablishBaseline: the statistics of the whole buffer.
EstablishBaselineWholeBuffer(old, buf) ==
    IF Len(buf) < BASELINE_MIN_SAMPLES
      THEN old
      ELSE [m \in DOMAIN old \cup Range(MonitoredMetrics) |->
               IF m \in Range(MonitoredMetrics)
                 THEN BaselineOf(Values(buf, m))
                 ELSE old[m]]

\* Mutant of EstablishBaseline: the threshold of the detection loop (10).
EstablishBaselineEarly(old, buf) ==
    IF Len(buf) < DETECT_MIN_SAMPLES
      THEN old
      ELSE LET recent_metrics == LastN(buf, BASELINE_WINDOW)
           IN  [m \in DOMAIN old \cup Range(MonitoredMetrics) |->
                   IF m \in Range(MonitoredMetrics)
                     THEN BaselineOf(Values(recent_metrics, m))
                     ELSE old[m]]

\* The dict after `await self._establish_baseline()`.
EstablishBaseline(old, buf) ==
    IF Len(buf) < BASELINE_MIN_SAMPLES
      THEN old
      ELSE LET recent_metrics == LastN(buf, BASELINE_WINDOW)
           IN  [m \in DOMAIN old \cup Range(MonitoredMetrics) |->
                   IF m \in Range(MonitoredMetrics)
                     THEN BaselineOf(Values(recent_metrics, m))
                     ELSE old[m]]

\* Mutant of BaselineForCycle: the baseline is recomputed in every cycle.
BaselineEveryCycle(old, buf) == EstablishBaseline(old, buf)

\* _detect_anomalies, lines 299-301.
BaselineForCycle(old, buf) ==
    IF DOMAIN old = {} THEN EstablishBaseline(old, buf) ELSE old

(***************************************************************************)
(* _check_metric_anomaly: what one check does.  With k = len(values),      *)
(* d = k*n*(current_avg - mean), so z > c  iff  d^2 > c^2 * k^2 * (n*std)^2.*)
(***************************************************************************)
CheckMetricAnomaly(baseline, metric_name, values) ==
    IF metric_name \notin DOMAIN baseline
      THEN "return"
      ELSE LET b == baseline[metric_name]
               k == Len(values)
               d == SumTo(values, k) * b.n - b.mean_x_n * k
           IN  IF k = 0 \/ b.std_x_n_sq = 0
                 THEN "ZeroDivisionError"
                 ELSE IF d * d > Z_ALERT * Z_ALERT * k * k * b.std_x_n_sq
                        THEN IF d * d > Z_HIGH * Z_HIGH * k * k * b.std_x_n_sq
                               THEN "high"
                               ELSE "medium"
                        ELSE "none"

\* current_avg = sum(values) / len(values), as numerator and denominator.
CurrentAvg(values) == [num |-> SumTo(values, Len(values)), den |-> Len(values)]

(***************************************************************************)
(* One detection cycle over the three metrics, in order.  An exception     *)
(* (division by a zero std, or the missing syslog method after the first   *)
(* alert) leaves _detect_anomalies at once: later metrics are not checked. *)
(***************************************************************************)
Raises(cfg, outcome) ==
    \/ outcome = "ZeroDivisionError"
    \/ cfg.syslog /\ outcome \in {"medium", "high"}

\* Index of the first check that raises, or 4 when none does.
FirstRaise(cfg, outcomes) ==
    IF \E i \in 1..3 : Raises(cfg, outcomes[i])
      THEN CHOOSE i \in 1..3 :
               /\ Raises(cfg, outcomes[i])
               /\ \A j \in 1..(i - 1) : ~Raises(cfg, outcomes[j])
      ELSE 4

NoCycle ==
    [ran |-> FALSE, detected |-> FALSE, before |-> {}, outcome |-> <<>>,
     error |-> "none", emitted |-> <<>>]

\* _detect_anomalies, lines 303-313: the three checks on the list built at
\* line 297, against the baseline dict as it is by then.
CheckMetrics(cfg, baseline, recent_metrics, now) ==
    LET outcomes == [i \in 1..3 |->
                        CheckMetricAnomaly(baseline, MonitoredMetrics[i],
                            Values(recent_metrics, MonitoredMetrics[i]))]
        stop == FirstRaise(cfg, outcomes)
        done == [i \in 1..3 |-> IF i <= stop THEN outcomes[i] ELSE "unchecked"]
        alerting == {i \in 1..3 : done[i] \in {"medium", "high"}}
        AlertOf(i) ==
            AnomalyAlert(MonitoredMetrics[i],
                         CurrentAvg(Values(recent_metrics, MonitoredMetrics[i])),
                         baseline[MonitoredMetrics[i]], done[i], now)
        emitted == (IF 1 \in alerting THEN <<AlertOf(1)>> ELSE <<>>)
                   \o (IF 2 \in alerting THEN <<AlertOf(2)>> ELSE <<>>)
                   \o (IF 3 \in alerting THEN <<AlertOf(3)>> ELSE <<>>)
    IN  [emitted |-> emitted,
         outcome |-> [i \in 1..3 |-> done[i]],
         error |-> IF stop = 4 THEN "none"
                   ELSE IF outcomes[stop] = "ZeroDivisionError"
                          THEN "ZeroDivisionError"
                          ELSE "AttributeError"]

DetectAnomalies(cfg, old, buf, now) ==
    LET recent_metrics == LastN(buf, RECENT_WINDOW)
        baseline == BaselineForCycle(old, buf)
        r == CheckMetrics(cfg, baseline, recent_metrics, now)
    IN  [baseline |-> baseline, emitted |-> r.emitted, outcome |-> r.outcome,
         error |-> r.error]

(***************************************************************************)
(* The four loops.  Each iteration is one atomic step: the awaited         *)
(* coroutines never suspend, so the only point where another task runs is  *)
(* the sleep that ends the iteration.  The ...Cycle definitions are the    *)
(* try/except body of an iteration; they say nothing about running and pc. *)
(***************************************************************************)
Loops == {"log", "metric", "anomaly", "export"}

LoopError(loop) ==
    CASE loop = "log" -> "Log collection error"
      [] loop = "metric" -> "Metrics collection error"
      [] loop = "anomaly" -> "Anomaly detection error"
      [] loop = "export" -> "Export error"

(***************************************************************************)
(* _metric_collection_loop, one cycle: the sub-collectors are sampled, the *)
(* snapshot is appended, then _analyze_metrics emits the resource alerts.  *)
(***************************************************************************)
MetricCollectionCycle ==
    /\ samples_made < limits.samples
    /\ \E failing \in SUBSET (limits.faults \cap Fallible) :
         LET metrics == MergedTo(HostAt(scenario, samples_made + 1), failing,
                                 Len(MetricCollectors))
             system_metrics == SystemMetrics(samples_made + 1, metrics)
             alerts == ResourceAlerts(system_metrics, clock)
         IN  /\ metrics_buffer' =
                    DequeAppend(metrics_buffer, system_metrics, METRICS_MAXLEN)
             /\ generated' = generated \o Exported(config, alerts)
             /\ alert_log' =
                    alert_log \o Written(alert_log_writable, Exported(config, alerts))
             /\ logged' =
                    (IF "system" \in failing
                       THEN <<CollectorError("system")>> ELSE <<>>)
                    \o (IF "network" \in failing
                          THEN <<CollectorError("network")>> ELSE <<>>)
                    \o WriteFailures(alert_log_writable, Exported(config, alerts))
                    \o (IF ExportRaises(config, alerts)
                          THEN <<LoopError("metric")>> ELSE <<>>)
    /\ samples_made' = samples_made + 1
    /\ cycle' = NoCycle
    /\ UNCHANGED <<config, events_buffer, baseline_metrics, metrics_file,
                   scenario, events_appended, limits, baseline_source,
                   threat_indicators, clock, alert_log_writable, syslog_sink,
                   log_cycle>>
    /\ UNCHANGED tail_vars
    /\ UNCHANGED <<unit_vars, fleet_vars>>

(***************************************************************************)
(* _anomaly_detection_loop, one cycle.                                     *)
(***************************************************************************)
AnomalyAlertCount ==
    Cardinality({i \in DOMAIN generated : generated[i].type = "anomaly_alert"})

AnomalyDetectionCycle ==
    /\ AnomalyAlertCount < limits.anomaly_alerts
    /\ IF Len(metrics_buffer) >= DETECT_MIN_SAMPLES
         THEN LET r == DetectAnomalies(config, baseline_metrics, metrics_buffer,
                                       clock)
              IN  /\ baseline_metrics' = r.baseline
                  /\ generated' = generated \o r.emitted
                  /\ alert_log' =
                         alert_log \o Written(alert_log_writable, r.emitted)
                  /\ logged' =
                         WriteFailures(alert_log_writable, r.emitted)
                         \o (IF r.error # "none"
                               THEN <<LoopError("anomaly")>> ELSE <<>>)
                  /\ baseline_source' =
                         IF r.baseline # baseline_metrics
                           THEN metrics_buffer ELSE baseline_source
                  /\ cycle' = [ran |-> TRUE, detected |-> TRUE,
                               before |-> DOMAIN baseline_metrics,
                               outcome |-> r.outcome, error |-> r.error,
                               emitted |-> r.emitted]
         ELSE /\ cycle' = [NoCycle EXCEPT !.ran = TRUE,
                                          !.before = DOMAIN baseline_metrics]
              /\ logged' = <<>>
              /\ UNCHANGED <<baseline_metrics, alert_log, baseline_source,
                             generated>>
    /\ UNCHANGED <<config, events_buffer, metrics_buffer, metrics_file,
                   scenario, samples_made, events_appended, limits,
                   threat_indicators, clock, alert_log_writable, syslog_sink,
                   log_cycle>>
    /\ UNCHANGED tail_vars
    /\ UNCHANGED <<unit_vars, fleet_vars>>

(***************************************************************************)
(* _detect_anomalies taken one await at a time: the list of line 297 is    *)
(* built, then _establish_baseline is awaited, then the three checks are.  *)
(* The awaited coroutines do not suspend as written; letting the metric    *)
(* loop run at each await covers any that would.                           *)
(***************************************************************************)
\* Mutant of Window: a view of the deque's tail instead of a list built from it.
WindowView(copy, buf) == LastN(buf, Len(copy))

\* recent_metrics as the checks read it: the list object built at line 297.
Window(copy, buf) == copy

\* recent_metrics = list(self.metrics_buffer)[-10:]
DetectCopy ==
    /\ detect.at = "idle"
    /\ AnomalyAlertCount < limits.anomaly_alerts
    /\ Len(metrics_buffer) >= DETECT_MIN_SAMPLES
    /\ detect' = [at |-> "copied",
                  recent_metrics |-> LastN(metrics_buffer, RECENT_WINDOW),
                  taken_from |-> metrics_buffer, used |-> <<>>]
    /\ logged' = <<>>
    /\ UNCHANGED <<config, events_buffer, metrics_buffer, baseline_metrics,
                   alert_log, metrics_file, scenario, samples_made,
                   events_appended, limits, cycle, baseline_source, running, pc,
                   threat_indicators, clock, alert_log_writable, syslog_sink,
                   generated, log_cycle>>
    /\ UNCHANGED tail_vars
    /\ UNCHANGED <<config_file, loaded_config, log_content, parsed_events>>
    /\ UNCHANGED fleet_vars

\* if not self.baseline_metrics: await self._establish_baseline()
DetectBaseline ==
    /\ detect.at = "copied"
    /\ baseline_metrics' = BaselineForCycle(baseline_metrics, metrics_buffer)
    /\ baseline_source' =
           IF baseline_metrics' # baseline_metrics
             THEN metrics_buffer ELSE baseline_source
    /\ detect' = [detect EXCEPT !.at = "baselined"]
    /\ logged' = <<>>
    /\ UNCHANGED <<config, events_buffer, metrics_buffer, alert_log,
                   metrics_file, scenario, samples_made, events_appended, limits,
                   cycle, running, pc, threat_indicators, clock,
                   alert_log_writable, syslog_sink, generated, log_cycle>>
    /\ UNCHANGED tail_vars
    /\ UNCHANGED <<config_file, loaded_config, log_content, parsed_events>>
    /\ UNCHANGED fleet_vars

\* The three checks, lines 303-313, and the except branch of the loop.
DetectChecks ==
    /\ detect.at = "baselined"
    /\ LET recent_metrics == Window(detect.recent_metrics, metrics_buffer)
           r == CheckMetrics(config, baseline_metrics, recent_metrics, clock)
       IN  /\ generated' = generated \o r.emitted
           /\ alert_log' = alert_log \o Written(alert_log_writable, r.emitted)
           /\ logged' =
                  WriteFailures(alert_log_writable, r.emitted)
                  \o (IF r.error # "none"
                        THEN <<LoopError("anomaly")>> ELSE <<>>)
           /\ cycle' = [ran |-> TRUE, detected |-> TRUE,
                        before |-> DOMAIN baseline_metrics,
                        outcome |-> r.outcome, error |-> r.error,
                        emitted |-> r.emitted]
           /\ detect' = [detect EXCEPT !.at = "idle", !.used = recent_metrics]
    /\ UNCHANGED <<config, events_buffer, metrics_buffer, baseline_metrics,
                   metrics_file, scenario, samples_made, events_appended, limits,
                   baseline_source, running, pc, threat_indicators, clock,
                   alert_log_writable, syslog_sink, log_cycle>>
    /\ UNCHANGED tail_vars
    /\ UNCHANGED <<config_file, loaded_config, log_content, parsed_events>>
    /\ UNCHANGED fleet_vars

(***************************************************************************)
(* _export_alert for one alert, on the running account `fx` of a log       *)
(* cycle: ti (threat table), log, gen (alerts built), logged, error (the   *)
(* exception on its way to the loop's except, or "none"), buf, appended,   *)
(* handed (events given to _process_security_event), visited and parsed    *)
(* (sources whose path was looked up / whose parser was called).           *)
(***************************************************************************)
ExportAlert(cfg, writable, fx, alert) ==
    [fx EXCEPT !.gen = Append(@, alert),
               !.log = @ \o Written(writable, <<alert>>),
               !.logged = @ \o WriteFailures(writable, <<alert>>),
               !.error = IF cfg.syslog THEN "AttributeError" ELSE @]

\* f"{indicator_type}:{value}"
ThreatKey(indicator_type, value) == <<indicator_type, ":", value>>

\* _check_threat_indicators, lines 252-262: what the event offers to match.
Indicators(event) ==
    (IF Get(event.network_info, "source_ip") # ""
       THEN <<ThreatKey("ip", Get(event.network_info, "source_ip"))>>
       ELSE <<>>)
    \o (IF Get(event.file_info, "hash") # ""
          THEN <<ThreatKey("hash", Get(event.file_info, "hash"))>>
          ELSE <<>>)

\* Mutant of CheckIndicator: a hit refreshes last_seen of the whole table.
CheckIndicatorTouchesAll(cfg, writable, fx, event, threat_key, now) ==
    IF fx.error # "none" \/ threat_key \notin DOMAIN fx.ti
      THEN fx
      ELSE LET threat == [fx.ti[threat_key] EXCEPT !.count = @ + 1,
                                                   !.last_seen = event.timestamp]
               table == [key \in DOMAIN fx.ti |->
                            IF key = threat_key THEN threat
                            ELSE [fx.ti[key] EXCEPT !.last_seen = event.timestamp]]
           IN  ExportAlert(cfg, writable, [fx EXCEPT !.ti = table],
                           ThreatAlert(event, threat, now))

\* Lines 266-273 for one indicator of the event.
CheckIndicator(cfg, writable, fx, event, threat_key, now) ==
    IF fx.error # "none" \/ threat_key \notin DOMAIN fx.ti
      THEN fx
      ELSE LET threat == [fx.ti[threat_key] EXCEPT !.count = @ + 1,
                                                   !.last_seen = event.timestamp]
               table == [fx.ti EXCEPT ![threat_key] = threat]
           IN  ExportAlert(cfg, writable, [fx EXCEPT !.ti = table],
                           ThreatAlert(event, threat, now))

\* _check_threat_indicators: an event offers at most two indicators.
CheckThreatIndicators(cfg, writable, fx, event, now) ==
    LET indicators == Indicators(event)
        first == IF Len(indicators) >= 1
                   THEN CheckIndicator(cfg, writable, fx, event, indicators[1], now)
                   ELSE fx
    IN  IF Len(indicators) >= 2
          THEN CheckIndicator(cfg, writable, first, event, indicators[2], now)
          ELSE first

NeedsAlert(e) == e.severity \in {"critical", "high"}

\* _process_security_event.
ProcessSecurityEvent(cfg, writable, fx, event, now) ==
    LET checked == CheckThreatIndicators(cfg, writable, fx, event, now)
    IN  IF checked.error # "none" \/ ~NeedsAlert(event)
          THEN checked
          ELSE ExportAlert(cfg, writable, checked, SecurityAlert(event, now))

RECURSIVE ProcessEvents(_, _, _, _, _, _)
\* Lines 165-167 for batch[1..n]: each event is appended, then processed; an
\* exception leaves the for loop.
ProcessEvents(cfg, writable, fx, batch, n, now) ==
    IF n = 0 THEN fx
    ELSE LET prev == ProcessEvents(cfg, writable, fx, batch, n - 1, now)
             event == SecurityEvent(prev.appended + 1, batch[n], now)
         IN  IF prev.error # "none"
               THEN prev
               ELSE ProcessSecurityEvent(cfg, writable,
                        [prev EXCEPT !.buf = DequeAppend(@, event, EVENTS_MAXLEN),
                                     !.appended = @ + 1,
                                     !.handed = Append(@, event)],
                        event, now)

\* self.log_parsers, in the order the dict is iterated.
LogOrder == <<"auth", "syslog", "audit", "apache", "nginx">>

RECURSIVE CollectFrom(_, _, _, _, _, _)
\* Lines 161-167 for the sources LogOrder[1..i].  returns[log_type] is what
\* the source does in this cycle: "missing" (Path.exists is False),
\* "denied" (the path cannot be looked up and Path.exists raises
\* PermissionError), "unreadable" (parse_new_events fails inside and returns
\* []), or "ok" with the events its parser returns.
CollectFrom(cfg, writable, fx, returns, i, now) ==
    IF i = 0 THEN fx
    ELSE LET prev == CollectFrom(cfg, writable, fx, returns, i - 1, now)
             log_type == LogOrder[i]
         IN  IF prev.error # "none" \/ log_type \notin cfg.log_paths
               THEN prev
               ELSE LET r == returns[log_type]
                        at == [prev EXCEPT !.visited = Append(@, log_type)]
                        in == [at EXCEPT !.parsed = Append(@, log_type)]
                    IN  CASE r.state = "missing" -> at
                          [] r.state = "denied" ->
                               [at EXCEPT !.error = "PermissionError"]
                          [] r.state = "unreadable" ->
                               [in EXCEPT !.logged = Append(@, "Failed to parse")]
                          [] r.state = "ok" ->
                               ProcessEvents(cfg, writable, in, r.events,
                                             Len(r.events), now)

\* What a source can do in one cycle of this run.
SourceOutcomes(log_type) ==
    {[state |-> "ok", events |-> batch] :
        batch \in UNION {[1..len -> limits.inputs[log_type]] :
                            len \in 0..limits.batch}}
    \cup {[state |-> fault, events |-> <<>>] :
             fault \in limits.faults \cap {"missing", "denied", "unreadable"}}

RECURSIVE Returned(_, _)
\* Number of events the sources LogOrder[1..i] hold for this cycle.
Returned(returns, i) ==
    IF i = 0 THEN 0
    ELSE Returned(returns, i - 1)
         + (IF LogOrder[i] \in DOMAIN returns
              THEN Len(returns[LogOrder[i]].events) ELSE 0)

NoLogCycle ==
    [ran |-> FALSE, returns |-> <<>>, visited |-> <<>>, parsed |-> <<>>,
     handed |-> <<>>, error |-> "none", failed_before |-> {}]

\* The sources that did not deliver in a cycle.
Failing(returns) == {log_type \in DOMAIN returns : returns[log_type].state # "ok"}

\* The account a handler starts from.
Account ==
    [ti |-> threat_indicators, log |-> alert_log, gen |-> generated,
     logged |-> <<>>, error |-> "none", buf |-> events_buffer,
     appended |-> events_appended, handed |-> <<>>, visited |-> <<>>,
     parsed |-> <<>>]

(***************************************************************************)
(* _log_collection_loop, one cycle.                                        *)
(***************************************************************************)
LogCollectionCycle ==
    \E returns \in [config.log_paths -> UNION {SourceOutcomes(log_type) :
                                                  log_type \in config.log_paths}] :
        /\ \A log_type \in config.log_paths :
               returns[log_type] \in SourceOutcomes(log_type)
        /\ events_appended + Returned(returns, Len(LogOrder)) <= limits.events
        /\ LET fx == CollectFrom(config, alert_log_writable, Account, returns,
                                  Len(LogOrder), clock)
           IN  /\ events_buffer' = fx.buf
               /\ events_appended' = fx.appended
               /\ threat_indicators' = fx.ti
               /\ alert_log' = fx.log
               /\ generated' = fx.gen
               /\ logged' = fx.logged
                            \o (IF fx.error # "none"
                                  THEN <<LoopError("log")>> ELSE <<>>)
               /\ log_cycle' = [ran |-> TRUE, returns |-> returns,
                                visited |-> fx.visited, parsed |-> fx.parsed,
                                handed |-> fx.handed, error |-> fx.error,
                                failed_before |->
                                    IF log_cycle.ran
                                      THEN Failing(log_cycle.returns)
                                           \cap Range(log_cycle.visited)
                                      ELSE {}]
        /\ UNCHANGED <<config, metrics_buffer, baseline_metrics, metrics_file,
                       scenario, samples_made, limits, cycle, baseline_source,
                       clock, alert_log_writable, syslog_sink>>
        /\ UNCHANGED tail_vars
        /\ UNCHANGED <<unit_vars, fleet_vars>>

(***************************************************************************)
(* _export_loop, one cycle: _export_prometheus_metrics overwrites the      *)
(* metrics file with the gauges of the newest snapshot; with               *)
(* export.elasticsearch set the cycle then calls                           *)
(* self._export_elasticsearch_events, which the class does not define.     *)
(***************************************************************************)
Gauges(m) ==
    [security_cpu_usage |-> m.cpu_usage,
     security_memory_usage |-> m.memory_usage,
     security_network_connections |-> m.network_connections,
     security_compliance_score |-> m.compliance_score]

\* logger.error in the except branch of _export_prometheus_metrics.
PrometheusError == "Failed to export Prometheus metrics"

\* self.metrics_buffer[-1]
Latest(buf) == buf[Len(buf)]

\* Mutant of Overwrite: the file is opened for appending.
OverwriteKeeping(file, text) == file \cup {text}

\* open(metrics_file, 'w') and the writes: what the file holds afterwards.
Overwrite(file, text) == {text}

\* The file after a write that raised once the first gauge was out.
FirstGauge(gauges) == [name \in {"security_cpu_usage"} |-> gauges[name]]

\* _export_prometheus_metrics: the file afterwards.  outcome: "written", or
\* open raised ("open_fails"), or a write did ("write_fails").
ExportPrometheusMetrics(file, buf, outcome) ==
    IF buf = <<>> THEN file
    ELSE CASE outcome = "written" -> Overwrite(file, Gauges(Latest(buf)))
           [] outcome = "open_fails" -> file
           [] outcome = "write_fails" ->
                Overwrite(file, FirstGauge(Gauges(Latest(buf))))

ExportLoopCycle ==
    /\ \E outcome \in {"written"} \cup (limits.faults \cap {"open_fails", "write_fails"}) :
          /\ outcome # "written" => config.prometheus /\ metrics_buffer # <<>>
          /\ metrics_file' =
                 IF config.prometheus
                   THEN ExportPrometheusMetrics(metrics_file, metrics_buffer, outcome)
                   ELSE metrics_file
          /\ logged' = (IF outcome # "written" THEN <<PrometheusError>> ELSE <<>>)
                       \o (IF config.elasticsearch
                             THEN <<LoopError("export")>> ELSE <<>>)
    /\ UNCHANGED <<config, events_buffer, metrics_buffer, baseline_metrics,
                   alert_log, scenario, samples_made, events_appended, limits,
                   cycle, baseline_source, threat_indicators, clock,
                   alert_log_writable, syslog_sink, generated, log_cycle>>
    /\ UNCHANGED tail_vars
    /\ UNCHANGED <<unit_vars, fleet_vars>>

(***************************************************************************)
(* An iteration of each loop together with the sleep that ends it, while   *)
(* the flag stays set.                                                     *)
(***************************************************************************)
MetricCollect == MetricCollectionCycle /\ UNCHANGED <<running, pc>>

DetectCycle == AnomalyDetectionCycle /\ UNCHANGED <<running, pc>>

LogCollectEvents == LogCollectionCycle /\ UNCHANGED <<running, pc>>

ExportCycle == ExportLoopCycle /\ UNCHANGED <<running, pc>>

(***************************************************************************)
(* The loops as tasks.  pc[loop] is "unstarted" before start_collection,   *)
(* "top" at `while self.running`, "sleep" in the sleep that ends a cycle,  *)
(* "backoff" in the sleep of the except branch, "done" once the while loop *)
(* is left.                                                                *)
(***************************************************************************)
\* Mutant of WhileCondition: `while True`.
WhileTrue(flag) == TRUE

\* while self.running
WhileCondition(flag) == flag

\* Mutant of AfterCycle: no try/except, the exception ends the task.
AfterCycleUncaught(failed) == IF failed THEN "done" ELSE "sleep"

\* Where the loop is after the try/except of one iteration.
AfterCycle(failed) == IF failed THEN "backoff" ELSE "sleep"

\* The loop tests the flag, finds it set and runs one cycle (the cycle's
\* own definition is conjoined before this one).
Iterate(loop) ==
    /\ pc[loop] = "top"
    /\ WhileCondition(running)
    /\ pc' = [pc EXCEPT ![loop] = AfterCycle(LoopError(loop) \in Range(logged'))]
    /\ UNCHANGED running

LogLoop == LogCollectionCycle /\ Iterate("log")

MetricLoop == MetricCollectionCycle /\ Iterate("metric")

AnomalyLoop == AnomalyDetectionCycle /\ Iterate("anomaly")

ExportLoop == ExportLoopCycle /\ Iterate("export")

\* asyncio.sleep returns: the loop is back at its while.
WakeLoop(loop) ==
    /\ pc[loop] \in {"sleep", "backoff"}
    /\ pc' = [pc EXCEPT ![loop] = "top"]
    /\ logged' = <<>>
    /\ UNCHANGED <<config, events_buffer, metrics_buffer, baseline_metrics,
                   alert_log, metrics_file, scenario, samples_made,
                   events_appended, limits, cycle, baseline_source, running,
                   threat_indicators, clock, alert_log_writable, syslog_sink,
                   generated, log_cycle>>
    /\ UNCHANGED tail_vars
    /\ UNCHANGED <<unit_vars, fleet_vars>>

Wake == \E loop \in Loops : WakeLoop(loop)

\* The loop tests the flag, finds it cleared and returns.
ExitLoop(loop) ==
    /\ pc[loop] = "top"
    /\ ~WhileCondition(running)
    /\ pc' = [pc EXCEPT ![loop] = "done"]
    /\ logged' = <<>>
    /\ UNCHANGED <<config, events_buffer, metrics_buffer, baseline_metrics,
                   alert_log, metrics_file, scenario, samples_made,
                   events_appended, limits, cycle, baseline_source, running,
                   threat_indicators, clock, alert_log_writable, syslog_sink,
                   generated, log_cycle>>
    /\ UNCHANGED tail_vars
    /\ UNCHANGED <<unit_vars, fleet_vars>>

LoopExit == \E loop \in Loops : ExitLoop(loop)

\* stop_collection
StopCollection ==
    /\ running
    /\ running' = FALSE
    /\ logged' = <<>>
    /\ UNCHANGED <<config, events_buffer, metrics_buffer, baseline_metrics,
                   alert_log, metrics_file, scenario, samples_made,
                   events_appended, limits, cycle, baseline_source, pc,
                   threat_indicators, clock, alert_log_writable, syslog_sink,
                   generated, log_cycle>>
    /\ UNCHANGED tail_vars
    /\ UNCHANGED <<unit_vars, fleet_vars>>

(***************************************************************************)
(* The alert generators called on their own, each with its export.         *)
(***************************************************************************)
\* The state after a generator has built `alert` and exported it.
Generate(alert) ==
    LET fx == ExportAlert(config, alert_log_writable, Account, alert)
    IN  /\ Len(generated) < limits.calls
        /\ generated' = fx.gen
        /\ alert_log' = fx.log
        /\ logged' = fx.logged
        /\ UNCHANGED <<config, events_buffer, metrics_buffer, baseline_metrics,
                       metrics_file, scenario, samples_made, events_appended,
                       limits, cycle, baseline_source, running, pc,
                       threat_indicators, clock, alert_log_writable,
                       syslog_sink, log_cycle>>
        /\ UNCHANGED tail_vars
        /\ UNCHANGED <<unit_vars, fleet_vars>>

\* An event a parser built at tick 0.
AlertEvents ==
    {SecurityEvent(1, [event_type |-> "system_event", source |-> "syslog",
                       severity |-> "high"], 0)}

\* _generate_alert(event)
GenerateAlert ==
    \E event \in AlertEvents : Generate(SecurityAlert(event, clock))

\* _generate_threat_alert(event, threat)
GenerateThreatAlert ==
    \E event \in AlertEvents, threat_key \in DOMAIN threat_indicators :
        Generate(ThreatAlert(event, threat_indicators[threat_key], clock))

\* _generate_resource_alert(resource_type, value, mount)
GenerateResourceAlert ==
    \E args \in {<<"cpu", CPU_HIGH + 1, "None">>, <<"disk", DISK_HIGH + 1, "/">>} :
        Generate(ResourceAlert(args[1], args[2], args[3], clock))

\* _generate_anomaly_alert(metric_name, current_value, baseline, severity)
GenerateAnomalyAlert ==
    \E metric_name \in {"cpu_usage"} :
        Generate(AnomalyAlert(metric_name, [num |-> 250, den |-> 10],
                              BaselineOf(<<10, 20>>), "medium", clock))

(***************************************************************************)
(* Environment: time passes; the alert log becomes unwritable or writable  *)
(* again (permissions, a full disk).                                       *)
(***************************************************************************)
ClockTick ==
    /\ clock < limits.clock
    /\ clock' = clock + 1
    /\ UNCHANGED <<config, events_buffer, metrics_buffer, baseline_metrics,
                   alert_log, metrics_file, scenario, samples_made,
                   events_appended, limits, cycle, baseline_source, running, pc,
                   threat_indicators, alert_log_writable, syslog_sink,
                   generated, logged, log_cycle>>
    /\ UNCHANGED tail_vars
    /\ UNCHANGED <<unit_vars, fleet_vars>>

AlertLogChmod ==
    /\ "unwritable" \in limits.faults
    /\ alert_log_writable' = ~alert_log_writable
    /\ UNCHANGED <<config, events_buffer, metrics_buffer, baseline_metrics,
                   alert_log, metrics_file, scenario, samples_made,
                   events_appended, limits, cycle, baseline_source, running, pc,
                   threat_indicators, clock, syslog_sink, generated, logged,
                   log_cycle>>
    /\ UNCHANGED tail_vars
    /\ UNCHANGED <<unit_vars, fleet_vars>>

(***************************************************************************)
(* _load_config.  A configuration is a map from the top-level keys to      *)
(* values; four of the values are maps themselves.  The file is what       *)
(* Path.exists, open and yaml.safe_load make of it.                        *)
(***************************************************************************)
default_config ==
    [collection_interval |-> 60,
     log_paths |-> [auth |-> "/var/log/auth.log",
                    syslog |-> "/var/log/syslog",
                    audit |-> "/var/log/audit/audit.log",
                    apache |-> "/var/log/apache2/access.log",
                    nginx |-> "/var/log/nginx/access.log"],
     thresholds |-> [cpu_high |-> CPU_HIGH,
                     memory_high |-> MEMORY_HIGH,
                     disk_high |-> DISK_HIGH,
                     failed_login_count |-> 5,
                     network_connections_high |-> NETWORK_CONNECTIONS_HIGH],
     retention |-> [events_days |-> 30, metrics_days |-> 90],
     export |-> [prometheus |-> TRUE, elasticsearch |-> FALSE, syslog |-> FALSE]]

\* The top-level keys whose value is a map.
MapKeys == {"log_paths", "thresholds", "retention", "export"}

\* dict.update(other): the keys of other replace those of the dict, whole
\* values at a time.
Update(dict, other) == other @@ dict

\* What _load_config returns for the file at config_path.
\*   none, missing: no path given, or Path(config_path).exists() is False
\*   unreadable: open or yaml.safe_load raises
\*   null, sequence: the document is empty, or not a mapping (update raises)
\*   mapping: the document is a mapping
LoadConfig(file) ==
    IF file.kind = "mapping" THEN Update(default_config, file.data)
    ELSE default_config

\* __init__: self.config = self._load_config(config_path)
Construct ==
    /\ loaded_config = {}
    /\ loaded_config' = {LoadConfig(config_file)}
    /\ UNCHANGED <<config_file, log_content, parsed_events, detect>>
    /\ UNCHANGED fleet_vars
    /\ UNCHANGED tail_vars
    /\ UNCHANGED collector_vars

(***************************************************************************)
(* Initial states.                                                         *)
(***************************************************************************)
\* default_config['export'], with the log types whose configured path exists
\* on this host; and the same with syslog forwarding enabled.
DefaultConfig ==
    [prometheus |-> TRUE, elasticsearch |-> FALSE, syslog |-> FALSE,
     log_paths |-> {"syslog"}]

\* self.threat_indicators = {}
NoIndicators == [threat_key \in {} |-> 0]

Configs == {DefaultConfig, [DefaultConfig EXCEPT !.syslog = TRUE]}

\* metrics_buffer after the first n samples of a trajectory (n <= maxlen).
FilledMetrics(scn, n) == [i \in 1..n |-> SystemMetrics(i, ReadingAt(scn, i))]

\* events_buffer after n successful logins were parsed (n <= maxlen).
FilledEvents(n) ==
    [i \in 1..n |->
        SecurityEvent(i, [event_type |-> "authentication_success",
                          source |-> "auth_log", severity |-> "info"], 0)]

\* SecurityAnalyticsCollector.__init__ and start_collection's first lines
\* (the flag set, the four tasks created), then n_m quiet samples and n_e
\* quiet events; the run goes on for at most `more` samples and events, the
\* sources deliver what their parsers build and the files stay accessible.
CollectorInit(cfgs, scns, fills_m, fills_e, more) ==
    /\ config \in cfgs
    /\ scenario \in scns
    /\ samples_made \in fills_m
    /\ events_appended \in fills_e
    /\ metrics_buffer = FilledMetrics(scenario, samples_made)
    /\ events_buffer = FilledEvents(events_appended)
    /\ baseline_metrics = NoBaseline
    /\ alert_log = <<>>
    /\ metrics_file = {}
    /\ limits = [samples |-> samples_made + more.samples,
                 events |-> events_appended + more.events,
                 batch |-> more.batch,
                 anomaly_alerts |-> more.anomaly_alerts,
                 inputs |-> [log_type \in config.log_paths |->
                                ParserEvents(log_type)],
                 faults |-> {}, calls |-> 0, clock |-> 0]
    /\ cycle = NoCycle
    /\ baseline_source = <<>>
    /\ running = TRUE
    /\ pc = [loop \in Loops |-> "top"]
    /\ threat_indicators = NoIndicators
    /\ clock = 0
    /\ alert_log_writable = TRUE
    /\ syslog_sink = <<>>
    /\ generated = <<>>
    /\ logged = <<>>
    /\ log_cycle = NoLogCycle
    /\ UnitsAtRest

\* The tailer at rest on a readable, empty file.
TailAtRest == TailInit /\ fs_inode = 1 /\ fs_readable

\* The collector as constructed, taking no step.
CollectorAtRest ==
    CollectorInit({DefaultConfig}, {1}, {0}, {0},
                  [samples |-> 0, events |-> 0, batch |-> 0, anomaly_alerts |-> 0])

(***************************************************************************)
(* Specifications.                                                         *)
(***************************************************************************)
TailNext ==
    \/ FsAppend
    \/ FsRotate
    \/ FsRemove
    \/ FsCreate
    \/ FsChmod
    \/ ParseStat
    \/ ParseRead

\* The tailer against its file system.
TailSpecInit == TailInit /\ CollectorAtRest

SpecTail == TailSpecInit /\ [][TailNext]_vars

\* The two buffers, empty or one short of full, and their producers.
BufferInit ==
    /\ TailAtRest
    /\ CollectorInit(Configs, {1}, {0, METRICS_MAXLEN - 1}, {0, EVENTS_MAXLEN - 1},
                     [samples |-> MaxOver, events |-> MaxOver,
                      batch |-> MaxBatch, anomaly_alerts |-> 0])

BufferNext ==
    \/ MetricCollect
    \/ LogCollectEvents

SpecBuffer == BufferInit /\ [][BufferNext]_vars

\* Metric collection and anomaly detection from an empty buffer.
DetectInit ==
    /\ TailAtRest
    /\ CollectorInit(Configs, 1..Len(Scenarios), {0}, {0},
                     [samples |-> MaxSamples, events |-> 0, batch |-> 0,
                      anomaly_alerts |-> MaxAnomalyAlerts])

DetectNext ==
    \/ MetricCollect
    \/ DetectCycle

SpecDetect == DetectInit /\ [][DetectNext]_vars

\* The four loops together, each buffer one short of full.
FullInit ==
    /\ TailAtRest
    /\ CollectorInit(Configs, {Len(Scenarios)}, {METRICS_MAXLEN - 1},
                     {EVENTS_MAXLEN - 1},
                     [samples |-> 2, events |-> 2, batch |-> 1,
                      anomaly_alerts |-> 1])

FullNext ==
    \/ MetricCollect
    \/ DetectCycle
    \/ LogCollectEvents
    \/ ExportCycle

SpecFull == FullInit /\ [][FullNext]_vars

\* The four loops together, from just below the baseline threshold and from
\* a buffer one short of full.
LoopsInit ==
    /\ TailAtRest
    /\ CollectorInit(Configs, {1, Len(Scenarios)},
                     {BASELINE_MIN_SAMPLES - 1, METRICS_MAXLEN - 1}, {0},
                     [samples |-> MaxOver, events |-> 1, batch |-> 1,
                      anomaly_alerts |-> MaxAnomalyAlerts])

LoopsNext ==
    \/ MetricCollect
    \/ DetectCycle
    \/ LogCollectEvents
    \/ ExportCycle

SpecLoops == LoopsInit /\ [][LoopsNext]_vars

\* Everything, from construction.
Init ==
    /\ TailInit
    /\ CollectorInit(Configs, 1..Len(Scenarios), {0}, {0},
                     [samples |-> MaxOver, events |-> MaxBatch,
                      batch |-> MaxBatch, anomaly_alerts |-> MaxAnomalyAlerts])

Next ==
    \/ TailNext
    \/ LoopsNext

Spec == Init /\ [][Next]_vars

\* Two indicators a threat feed has put into the table, not yet seen.
KnownIp == "203.0.113.7"

KnownHash == "44d88612fea8a8f3"

Indicator(indicator_type, value) ==
    [indicator_type |-> indicator_type, value |-> value,
     threat_type |-> "malware", count |-> 0, last_seen |-> -1]

KnownIndicators ==
    [threat_key \in {ThreatKey("ip", KnownIp), ThreatKey("hash", KnownHash)} |->
        Indicator(threat_key[1], threat_key[3])]

\* The collector started on a quiet host with nothing buffered: `cfgs` its
\* possible configurations, `tables` its possible threat tables, `lim` how
\* far the run goes.
StartedInit(cfgs, tables, lim) ==
    /\ config \in cfgs
    /\ scenario = 1
    /\ samples_made = 0
    /\ events_appended = 0
    /\ metrics_buffer = <<>>
    /\ events_buffer = <<>>
    /\ baseline_metrics = NoBaseline
    /\ alert_log = <<>>
    /\ metrics_file = {}
    /\ limits = lim
    /\ cycle = NoCycle
    /\ baseline_source = <<>>
    /\ running = TRUE
    /\ pc = [loop \in Loops |-> "top"]
    /\ threat_indicators \in tables
    /\ clock = 0
    /\ alert_log_writable = TRUE
    /\ syslog_sink = <<>>
    /\ generated = <<>>
    /\ logged = <<>>
    /\ log_cycle = NoLogCycle
    /\ UnitsAtRest

NoInputs == [log_type \in {} |-> {}]

\* The four alert generators, called at any time and in any order.
AlertIdInit ==
    /\ TailAtRest
    /\ StartedInit({DefaultConfig}, {KnownIndicators},
                   [samples |-> 0, events |-> 0, batch |-> 0,
                    anomaly_alerts |-> 0, inputs |-> NoInputs, faults |-> {},
                    calls |-> MaxCalls, clock |-> MaxClock])

AlertIdNext ==
    \/ GenerateAlert
    \/ GenerateThreatAlert
    \/ GenerateResourceAlert
    \/ GenerateAnomalyAlert
    \/ ClockTick

SpecAlertId == AlertIdInit /\ [][AlertIdNext]_vars

\* An address no indicator names.
UnknownIp == "198.51.100.9"

\* What a parser matched, with the network and file details an event may
\* carry ("" for a detail it does not carry).
WithInfo(e, source_ip, hash) ==
    [event_type |-> e.event_type, source |-> e.source, severity |-> e.severity,
     network_info |-> IF source_ip = "" THEN NoInfo ELSE [source_ip |-> source_ip],
     file_info |-> IF hash = "" THEN NoInfo ELSE [hash |-> hash]]

\* The sources of the log specification: failed logins from an unlisted
\* address; critical system events that name a listed address and a listed
\* file hash, and plain warnings.
LogInputs ==
    [log_type \in {"auth", "syslog"} |->
        IF log_type = "auth"
          THEN {WithInfo([event_type |-> "authentication_failure",
                          source |-> "auth_log", severity |-> "medium"],
                         UnknownIp, "")}
          ELSE {WithInfo([event_type |-> "system_event", source |-> "syslog",
                          severity |-> "high"], KnownIp, KnownHash),
                [event_type |-> "system_event", source |-> "syslog",
                 severity |-> "medium"]}]

LogConfigs == {[cfg EXCEPT !.log_paths = DOMAIN LogInputs] : cfg \in Configs}

\* The log-collection loop over two sources that deliver, are missing, are
\* inaccessible or are unreadable, against a populated threat table.
LogInit ==
    /\ TailAtRest
    /\ StartedInit(LogConfigs, {KnownIndicators},
                   [samples |-> 0, events |-> MaxOver, batch |-> MaxBatch,
                    anomaly_alerts |-> 0, inputs |-> LogInputs,
                    faults |-> {"missing", "denied", "unreadable"},
                    calls |-> 0, clock |-> 0])

LogNext == LogCollectEvents

SpecLog == LogInit /\ [][LogNext]_vars

RECURSIVE PastResourceAlerts(_, _, _)
\* The alerts the metric loop has built for the first n samples.
PastResourceAlerts(cfg, scn, n) ==
    IF n = 0 THEN <<>>
    ELSE PastResourceAlerts(cfg, scn, n - 1)
         \o Exported(cfg, ResourceAlerts(SystemMetrics(n, ReadingAt(scn, n)), 0))

\* Samples buffered when the alerting specification starts: a baseline was
\* set at 50 samples, and the 10 newest samples will soon all be later ones.
AlertingFill == BASELINE_MIN_SAMPLES + RECENT_WINDOW - 1

\* All four loops on a host under load (the last trajectory), some time
\* after the baseline was set, with a populated threat table, a system log
\* that reports critical events naming a listed address, and an alert log
\* that may become unwritable.
AlertingInit ==
    /\ TailAtRest
    /\ config \in Configs
    /\ scenario = Len(Scenarios)
    /\ samples_made = AlertingFill
    /\ events_appended = 0
    /\ metrics_buffer = FilledMetrics(scenario, samples_made)
    /\ events_buffer = <<>>
    /\ baseline_source = FilledMetrics(scenario, BASELINE_MIN_SAMPLES)
    /\ baseline_metrics = EstablishBaseline(NoBaseline, baseline_source)
    /\ generated = PastResourceAlerts(config, scenario, samples_made)
    /\ alert_log = generated
    /\ metrics_file = {}
    /\ limits = [samples |-> samples_made + 1, events |-> MaxBatch, batch |-> 1,
                 anomaly_alerts |-> 1,
                 inputs |-> [log_type \in config.log_paths |->
                                {WithInfo([event_type |-> "system_event",
                                           source |-> "syslog",
                                           severity |-> "high"], KnownIp, "")}],
                 faults |-> {"unwritable"}, calls |-> 0, clock |-> 0]
    /\ cycle = NoCycle
    /\ running = TRUE
    /\ pc = [loop \in Loops |-> "top"]
    /\ threat_indicators = KnownIndicators
    /\ clock = 0
    /\ alert_log_writable = TRUE
    /\ syslog_sink = <<>>
    /\ logged = <<>>
    /\ log_cycle = NoLogCycle
    /\ UnitsAtRest

AlertingNext ==
    \/ LogCollectEvents
    \/ MetricCollect
    \/ DetectCycle
    \/ ExportCycle
    \/ AlertLogChmod

SpecAlerting == AlertingInit /\ [][AlertingNext]_vars

\* Every export enabled.
AllExports == [DefaultConfig EXCEPT !.elasticsearch = TRUE, !.syslog = TRUE]

\* The four tasks some time into a run on a host under load (as in
\* AlertingInit), each at its while or asleep, under the default
\* configuration and with every export enabled; stop_collection may be
\* called at any moment.
RunInit ==
    /\ TailAtRest
    /\ config \in {DefaultConfig, AllExports}
    /\ scenario = Len(Scenarios)
    /\ samples_made = AlertingFill
    /\ events_appended = 0
    /\ metrics_buffer = FilledMetrics(scenario, samples_made)
    /\ events_buffer = <<>>
    /\ baseline_source = FilledMetrics(scenario, BASELINE_MIN_SAMPLES)
    /\ baseline_metrics = EstablishBaseline(NoBaseline, baseline_source)
    /\ generated = PastResourceAlerts(config, scenario, samples_made)
    /\ alert_log = generated
    /\ metrics_file = {Gauges(metrics_buffer[Len(metrics_buffer)])}
    /\ limits = [samples |-> samples_made + 1, events |-> 1, batch |-> 1,
                 anomaly_alerts |-> 1,
                 inputs |-> [log_type \in config.log_paths |->
                                {[event_type |-> "system_event",
                                  source |-> "syslog", severity |-> "high"]}],
                 faults |-> {}, calls |-> 0, clock |-> 0]
    /\ cycle = NoCycle
    /\ running = TRUE
    /\ pc \in [Loops -> {"top", "sleep"}]
    /\ threat_indicators = NoIndicators
    /\ clock = 0
    /\ alert_log_writable = TRUE
    /\ syslog_sink = <<>>
    /\ logged = <<>>
    /\ log_cycle = NoLogCycle
    /\ UnitsAtRest

RunNext ==
    \/ LogLoop
    \/ MetricLoop
    \/ AnomalyLoop
    \/ ExportLoop
    \/ Wake
    \/ LoopExit
    \/ StopCollection

SpecRun == RunInit /\ [][RunNext]_vars

\* Every sleep returns, and the event loop then runs the task, which finds
\* the flag cleared and returns. Nothing is assumed about cycles being run.
RunFairness ==
    /\ \A loop \in Loops : WF_vars(WakeLoop(loop))
    /\ \A loop \in Loops : WF_vars(ExitLoop(loop))

SpecRunLive == RunInit /\ [][RunNext]_vars /\ RunFairness

\* A detection cycle taken await by await while the metric loop appends:
\* on a buffer holding the baseline and recent windows, and on a full one,
\* where every append evicts.
WindowsInit ==
    /\ TailAtRest
    /\ CollectorInit(Configs, 1..Len(Scenarios),
                     {AlertingFill, METRICS_MAXLEN}, {0},
                     [samples |-> 2, events |-> 0, batch |-> 0,
                      anomaly_alerts |-> 1])

WindowsNext ==
    \/ MetricCollect
    \/ DetectCopy
    \/ DetectBaseline
    \/ DetectChecks

SpecWindows == WindowsInit /\ [][WindowsNext]_vars

\* The metric loop on its own, from construction, on every host trajectory,
\* with the psutil calls of either fallible sub-collector raising or not in
\* each cycle.
CollectInit ==
    /\ TailAtRest
    /\ config \in Configs
    /\ scenario \in 1..Len(Scenarios)
    /\ samples_made = 0
    /\ events_appended = 0
    /\ metrics_buffer = <<>>
    /\ events_buffer = <<>>
    /\ baseline_metrics = NoBaseline
    /\ alert_log = <<>>
    /\ metrics_file = {}
    /\ limits = [samples |-> 3, events |-> 0, batch |-> 0, anomaly_alerts |-> 0,
                 inputs |-> NoInputs, faults |-> Fallible, calls |-> 0,
                 clock |-> 0]
    /\ cycle = NoCycle
    /\ baseline_source = <<>>
    /\ running = TRUE
    /\ pc = [loop \in Loops |-> "top"]
    /\ threat_indicators = NoIndicators
    /\ clock = 0
    /\ alert_log_writable = TRUE
    /\ syslog_sink = <<>>
    /\ generated = <<>>
    /\ logged = <<>>
    /\ log_cycle = NoLogCycle
    /\ UnitsAtRest

CollectNext == MetricCollect

SpecCollect == CollectInit /\ [][CollectNext]_vars

\* The collector's own variables as __init__ leaves them, under the default
\* configuration.
CollectorFresh ==
    /\ config = DefaultConfig
    /\ scenario = 1
    /\ samples_made = 0
    /\ events_appended = 0
    /\ metrics_buffer = <<>>
    /\ events_buffer = <<>>
    /\ baseline_metrics = NoBaseline
    /\ alert_log = <<>>
    /\ metrics_file = {}
    /\ limits = [samples |-> 0, events |-> 0, batch |-> 0, anomaly_alerts |-> 0,
                 inputs |-> NoInputs, faults |-> {}, calls |-> 0, clock |-> 0]
    /\ cycle = NoCycle
    /\ baseline_source = <<>>
    /\ running = FALSE
    /\ pc = [loop \in Loops |-> "unstarted"]
    /\ threat_indicators = NoIndicators
    /\ clock = 0
    /\ alert_log_writable = TRUE
    /\ syslog_sink = <<>>
    /\ generated = <<>>
    /\ logged = <<>>
    /\ log_cycle = NoLogCycle

\* A value a file gives for a top-level key, different from the default:
\* for a map, every nested key with a value of its own.
Custom(key) ==
    CASE key = "collection_interval" -> 30
      [] key = "log_paths" ->
           [log_type \in DOMAIN default_config.log_paths |-> "/srv/log"]
      [] key = "thresholds" ->
           [name \in DOMAIN default_config.thresholds |->
               default_config.thresholds[name] - 1]
      [] key = "retention" ->
           [name \in DOMAIN default_config.retention |->
               default_config.retention[name] + 1]
      [] key = "export" ->
           [name \in DOMAIN default_config.export |-> ~default_config.export[name]]

\* The same, with a single nested key given.
Partial(key) ==
    LET given == CASE key = "log_paths" -> {"auth"}
                   [] key = "thresholds" -> {"cpu_high"}
                   [] key = "retention" -> {"events_days"}
                   [] key = "export" -> {"syslog"}
    IN  [name \in given |-> Custom(key)[name]]

\* The mappings a file can hold: each top-level key left out, given in
\* full, or (a map) given with one nested key.
FileMappings ==
    { data \in UNION {[keys -> {"full", "partial"}] :
                          keys \in SUBSET DOMAIN default_config} :
          \A key \in DOMAIN data : data[key] = "partial" => key \in MapKeys }

FileData(shape) ==
    [key \in DOMAIN shape |->
        IF shape[key] = "full" THEN Custom(key) ELSE Partial(key)]

ConfigFiles ==
    {[kind |-> kind] : kind \in {"none", "missing", "unreadable", "null",
                                 "sequence"}}
    \cup {[kind |-> "mapping", data |-> FileData(shape)] : shape \in FileMappings}

ConfigInit ==
    /\ TailAtRest
    /\ CollectorFresh
    /\ config_file \in ConfigFiles
    /\ loaded_config = {}
    /\ log_content = <<>>
    /\ parsed_events = NothingParsed
    /\ detect = NoDetect
    /\ FleetAtRest

ConfigNext == Construct

SpecConfig == ConfigInit /\ [][ConfigNext]_vars

\* Lines as they occur in the log of each type: empty and blank ones, lines
\* with one trigger, with two, with none, and with blanks at either end.
SampleLines(log_type) ==
    CASE log_type = "auth" ->
           { <<>>, <<" ">>,
             <<"Failed", " ", "password">>,
             <<"Accepted", " ", "password">>,
             <<"Accepted", " ", "password", " ", "Failed", " ", "password">>,
             <<"Failed", " ", "publickey">> }
      [] log_type = "syslog" ->
           { <<>>,
             <<"kernel:", " ", "ERROR">>,
             <<"Warning">>,
             <<"CRITICAL", " ", "error">>,
             <<"Alert", " ">>,
             <<"started">> }
      [] log_type = "audit" ->
           { <<>>,
             <<"type=", "SYSCALL">>,
             <<"type=", "PATH">>,
             <<"type=", "PATH", " ", "type=", "SYSCALL">>,
             <<" ", "type=", "SYSCALL">>,
             <<"node=", "a", " ", "type=", "SYSCALL">> }
      [] log_type \in {"apache", "nginx"} ->
           { <<>>,
             <<"GET", " ", "403", " ", "12">>,
             <<"GET", " ", "404", " ", "12">>,
             <<"GET", " ", "500", " ", "12">>,
             <<"GET", " ", "200", " ", "12">>,
             <<"GET", " ", "404", " ", "403", " ", "-">>,
             <<"GET", " ", "403", " ">> }

RECURSIVE Joined(_, _)
\* The first n lines, each but the last followed by a line feed.
Joined(lines, n) ==
    IF n = 0 THEN <<>>
    ELSE IF n = 1 THEN lines[1]
    ELSE Joined(lines, n - 1) \o <<"\n">> \o lines[n]

\* Contents of len lines, the last one terminated or still being written.
ContentsOfLen(log_type, len) ==
    UNION { {Joined(lines, len), Joined(lines, len) \o <<"\n">>} :
              lines \in [1..len -> SampleLines(log_type)] }

\* Up to MaxLines lines of a log.
Contents(log_type) ==
    UNION {ContentsOfLen(log_type, len) : len \in 1..MaxLines}

ParseInit ==
    /\ TailAtRest
    /\ CollectorFresh
    /\ config_file = NoConfigFile
    /\ loaded_config = {}
    /\ log_content \in UNION {Contents(log_type) : log_type \in LogTypes}
    /\ parsed_events = NothingParsed
    /\ detect = NoDetect
    /\ FleetAtRest

ParseNext == ParseCall

SpecParse == ParseInit /\ [][ParseNext]_vars

\* The log loop over one source whose parser is fed a content of up to
\* MaxLines lines: the events the source returns are those the parser builds
\* from that content.
ParserOutput(log_type, content) == Range(ParseContent(log_type, content))

SeverityInit ==
    /\ TailAtRest
    /\ \E log_type \in Range(LogOrder) :
           \E content \in Contents(log_type) :
               StartedInit({[DefaultConfig EXCEPT !.log_paths = {log_type}]},
                           {NoIndicators},
                           [samples |-> 0, events |-> 2, batch |-> 2,
                            anomaly_alerts |-> 0,
                            inputs |-> [t \in {log_type} |->
                                           ParserOutput(t, content)],
                            faults |-> {}, calls |-> 0, clock |-> 0])

SeverityNext == LogCollectEvents

SpecSeverity == SeverityInit /\ [][SeverityNext]_vars

\* The export loop beside the metric loop, from construction: with the
\* Prometheus export on and off, with the undefined elasticsearch export on,
\* with sub-collectors failing (so that snapshots differ) and with the
\* metrics file failing to open or to take a write.
ExportInit ==
    /\ TailAtRest
    /\ config \in {DefaultConfig, AllExports,
                   [DefaultConfig EXCEPT !.prometheus = FALSE]}
    /\ scenario \in {1, Len(Scenarios)}
    /\ samples_made = 0
    /\ events_appended = 0
    /\ metrics_buffer = <<>>
    /\ events_buffer = <<>>
    /\ baseline_metrics = NoBaseline
    /\ alert_log = <<>>
    /\ metrics_file = {}
    /\ limits = [samples |-> 3, events |-> 0, batch |-> 0, anomaly_alerts |-> 0,
                 inputs |-> NoInputs,
                 faults |-> {"system", "open_fails", "write_fails"},
                 calls |-> 0, clock |-> 0]
    /\ cycle = NoCycle
    /\ baseline_source = <<>>
    /\ running = TRUE
    /\ pc = [loop \in Loops |-> "top"]
    /\ threat_indicators = NoIndicators
    /\ clock = 0
    /\ alert_log_writable = TRUE
    /\ syslog_sink = <<>>
    /\ generated = <<>>
    /\ logged = <<>>
    /\ log_cycle = NoLogCycle
    /\ UnitsAtRest

ExportNext ==
    \/ MetricCollect
    \/ ExportCycle

SpecExport == ExportInit /\ [][ExportNext]_vars

(***************************************************************************)
(* Claims about the tailer, checked under SpecTail.                        *)
(***************************************************************************)
NoByteTwice ==
    \A i, j \in DOMAIN delivered : delivered[i] = delivered[j] => i = j

\* Every byte that was in a file when the tailer read that file has been
\* delivered.  Bytes of a file that was replaced before the tailer read them
\* never enter `seen`: they are the exception the claim allows.
NoByteSkipped == seen \subseteq Range(delivered)

\* C1: rotation safety.  Whatever the appends and rotations and however they
\* interleave with the calls, the concatenated chunks hold no byte twice and
\* skip no byte of a file the tailer has read.
C1_RotationSafety == NoByteTwice /\ NoByteSkipped

\* C2: a call that fails (path missing, or stat/open/seek/read raising)
\* leaves the stored offset and the stored identity as they were when the
\* call began.
C2_FailedCallKeepsCursor ==
    (tail_pc = "idle" /\ call.result = "error")
        => /\ last_position = call.at_position
           /\ last_inode = call.at_inode

\* C3: a call that found the file's identity different from the stored one
\* has read the new file from byte 0 to its end, and afterwards the stored
\* offset is that file's end and the stored identity is its identity.  Stated
\* for the calls whose read succeeded (failing calls are C2's subject).
C3_IdentityChangeRereads ==
    (tail_pc = "idle" /\ call.differs /\ call.result = "ok")
        => /\ call.read_inode = call.stat_inode
           /\ Len(call.chunk) = call.read_len
           /\ last_position = call.read_len
           /\ last_inode = call.read_inode

(***************************************************************************)
(* Claims about the buffers, checked under SpecBuffer.                     *)
(***************************************************************************)
\* buf holds the Min(inserted, maxlen) most recently inserted entries, in
\* insertion order (entries are numbered as they are inserted).
HoldsMostRecent(buf, inserted, maxlen) ==
    /\ Len(buf) = Min(inserted, maxlen)
    /\ \A i \in DOMAIN buf : buf[i].id = inserted - Len(buf) + i

\* C4: bounded buffers.  Neither buffer ever holds more than its capacity,
\* and each holds exactly the most recently inserted entries, oldest first:
\* once more than C were inserted, the C newest.
C4_BoundedBuffers ==
    /\ Len(events_buffer) <= EVENTS_MAXLEN
    /\ Len(metrics_buffer) <= METRICS_MAXLEN
    /\ HoldsMostRecent(events_buffer, events_appended, EVENTS_MAXLEN)
    /\ HoldsMostRecent(metrics_buffer, samples_made, METRICS_MAXLEN)

\* Both buffers have overflowed.
C4_Witness ==
    /\ events_appended > EVENTS_MAXLEN
    /\ samples_made > METRICS_MAXLEN
    /\ Len(events_buffer) = EVENTS_MAXLEN
    /\ Len(metrics_buffer) = METRICS_MAXLEN

(***************************************************************************)
(* Claims about the baseline and the detector, checked under SpecDetect    *)
(* (C8 under SpecLoops).  `cycle` describes the detection cycle that has   *)
(* just run; metrics_buffer is as that cycle saw it.                       *)
(***************************************************************************)
Metric(i) == MonitoredMetrics[i]

\* The alerts the last cycle emitted for a metric.
EmittedFor(metric_name) ==
    SelectSeq(cycle.emitted, LAMBDA a : a.metric_name = metric_name)

\* z > c for the metric, from the 10 newest samples and the baseline held:
\* |sum10/10 - mean| > c * std, both sides multiplied by 10 * n and squared.
ZExceeds(metric_name, c) ==
    LET b == baseline_metrics[metric_name]
        recent == Values(LastN(metrics_buffer, RECENT_WINDOW), metric_name)
        d == SumTo(recent, Len(recent)) * b.n - b.mean_x_n * Len(recent)
    IN  d * d > c * c * Len(recent) * Len(recent) * b.std_x_n_sq

\* C5: a metric whose baseline has std = 0 is checked as "no anomaly": its
\* check emits no alert and raises no error, and the cycle goes on to check
\* the remaining metrics.
C5_ZeroStdIsNoAnomaly ==
    \A i \in 1..3 :
        ( /\ cycle.detected
          /\ Metric(i) \in DOMAIN baseline_metrics
          /\ baseline_metrics[Metric(i)].std_x_n_sq = 0
          /\ cycle.outcome[i] # "unchecked" )
        => /\ cycle.outcome[i] = "none"
           /\ EmittedFor(Metric(i)) = <<>>
           /\ \A j \in (i + 1)..3 : cycle.outcome[j] # "unchecked"

\* C6: anomaly classification.  For every metric with a baseline (std > 0),
\* a detection cycle emits no alert when z <= 2, exactly one medium alert
\* when 2 < z <= 3 and exactly one high alert when z > 3.
C6_AnomalyClassification ==
    \A i \in 1..3 :
        ( /\ cycle.detected
          /\ Metric(i) \in DOMAIN baseline_metrics
          /\ baseline_metrics[Metric(i)].std_x_n_sq > 0 )
        => LET alerts == EmittedFor(Metric(i))
           IN  IF ~ZExceeds(Metric(i), Z_ALERT)
                 THEN alerts = <<>>
                 ELSE /\ Len(alerts) = 1
                      /\ alerts[1].severity =
                             IF ZExceeds(Metric(i), Z_HIGH) THEN "high" ELSE "medium"

\* The window the baseline was computed from.
BaselineWindow ==
    SubSeq(baseline_source, Len(baseline_source) - BASELINE_WINDOW + 1,
           Len(baseline_source))

\* C7: a baseline exists only if metrics_buffer held at least 50 samples
\* when it was computed, and it is the statistics of exactly the 50 newest
\* samples the buffer held then.
C7_BaselineNeedsFiftySamples ==
    DOMAIN baseline_metrics # {}
        => /\ Len(baseline_source) >= BASELINE_MIN_SAMPLES
           /\ DOMAIN baseline_metrics = Range(MonitoredMetrics)
           /\ \A m \in DOMAIN baseline_metrics :
                  /\ baseline_metrics[m].n = BASELINE_WINDOW
                  /\ baseline_metrics[m] = BaselineOf(Values(BaselineWindow, m))

\* A baseline computed when the buffer held more than 50 samples.
C7_Witness ==
    /\ DOMAIN baseline_metrics # {}
    /\ Len(baseline_source) > BASELINE_WINDOW

\* C8: once a baseline is established, no step of any loop changes it.
C8_BaselineNeverChanges ==
    [][DOMAIN baseline_metrics # {} => baseline_metrics' = baseline_metrics]_vars

\* A baseline is held while samples were appended (and, from a full buffer,
\* evicted) after it was computed, events were processed and the metrics
\* file was exported.
C8_Witness ==
    /\ DOMAIN baseline_metrics # {}
    /\ samples_made > baseline_source[Len(baseline_source)].id
    /\ events_appended > 0
    /\ metrics_file # {}
    /\ cycle.ran

\* Sum of (w[i] - w[j])^2 over the pairs i < j.
PairSqSum(w) ==
    LET n == Len(w)
        Row(i) == SumTo([j \in 1..(n - i) |->
                            (w[i] - w[i + j]) * (w[i] - w[i + j])], n - i)
    IN  SumTo([i \in 1..n |-> Row(i)], n)

\* C9: baseline statistics.  Over the 50-sample window w of each metric:
\* mean = sum(w) / 50; std is the population standard deviation, whose
\* square times 50^2 is the sum of the squared pairwise differences of w
\* (50^2 * variance, variance = sum of squared deviations / 50), so
\* std >= 0; min and max are the least and greatest value of w.
C9_BaselineStatistics ==
    \A m \in DOMAIN baseline_metrics :
        LET b == baseline_metrics[m]
            w == Values(BaselineWindow, m)
        IN  /\ Len(w) = BASELINE_WINDOW
            /\ b.n = BASELINE_WINDOW
            /\ b.mean_x_n = SumTo(w, BASELINE_WINDOW)
            /\ b.std_x_n_sq = PairSqSum(w)
            /\ b.std_x_n_sq >= 0
            /\ b.min \in Range(w) /\ \A x \in Range(w) : b.min <= x
            /\ b.max \in Range(w) /\ \A x \in Range(w) : x <= b.max

\* A baseline over a window that is not constant.
C9_Witness ==
    /\ DOMAIN baseline_metrics = Range(MonitoredMetrics)
    /\ \A m \in DOMAIN baseline_metrics :
           /\ baseline_metrics[m].std_x_n_sq > 0
           /\ baseline_metrics[m].min < baseline_metrics[m].max

\* C10: a detection cycle that runs while a metric has no baseline and
\* fewer than 50 samples are buffered (fewer than 10 included) emits no
\* anomaly alert for the metric, raises no error and leaves the metric
\* without a baseline.
C10_NoBaselineNoAlert ==
    \A i \in 1..3 :
        ( /\ cycle.ran
          /\ Metric(i) \notin cycle.before
          /\ Len(metrics_buffer) < BASELINE_MIN_SAMPLES )
        => /\ EmittedFor(Metric(i)) = <<>>
           /\ cycle.error = "none"
           /\ Metric(i) \notin DOMAIN baseline_metrics

\* _detect_anomalies has just run on 10 to 49 samples.
C10_Witness ==
    /\ cycle.detected
    /\ Len(metrics_buffer) >= DETECT_MIN_SAMPLES
    /\ Len(metrics_buffer) < BASELINE_MIN_SAMPLES
    /\ cycle.outcome = <<"return", "return", "return">>

(***************************************************************************)
(* Claims about alert ids, checked under SpecAlertId.                      *)
(***************************************************************************)
\* What an alert says, apart from when it was built and its id.
Payload(alert) ==
    [field \in DOMAIN alert \ {"alert_id", "timestamp"} |-> alert[field]]

SameContent(a, b) == a.type = b.type /\ Payload(a) = Payload(b)

\* C13: alert id, different seconds.  Two alerts of the same type with
\* identical payloads, built one second or more apart, have different ids.
C13_DistinctIdsAcrossSeconds ==
    \A i, j \in DOMAIN generated :
        ( /\ i < j
          /\ SameContent(generated[i], generated[j])
          /\ generated[j].timestamp - generated[i].timestamp >= TicksPerSecond )
        => generated[i].alert_id # generated[j].alert_id

\* C14: alert id, same second.  Two alerts of the same type with identical
\* content, built within the same second, have the same id, whatever was
\* built before or between them.
C14_SameIdWithinSecond ==
    \A i, j \in DOMAIN generated :
        ( /\ SameContent(generated[i], generated[j])
          /\ Seconds(generated[i].timestamp) = Seconds(generated[j].timestamp) )
        => generated[i].alert_id = generated[j].alert_id

\* Two equal resource alerts built at different moments of one second, with
\* an alert of another type built between them.
C14_Witness ==
    \E i, k, j \in DOMAIN generated :
        /\ i < k /\ k < j
        /\ generated[i].type = "resource_alert"
        /\ generated[k].type # "resource_alert"
        /\ SameContent(generated[i], generated[j])
        /\ generated[i].timestamp # generated[j].timestamp
        /\ Seconds(generated[i].timestamp) = Seconds(generated[j].timestamp)

(***************************************************************************)
(* Claims about the log-collection cycle, checked under SpecLog.           *)
(* log_cycle describes the cycle that has just run.                        *)
(***************************************************************************)
\* The indicators of the table (as the cycle found it) the event matches.
Matches(event) == Range(Indicators(event)) \cap DOMAIN threat_indicators

\* The alerts the step has built.
NewAlerts == SubSeq(generated', Len(generated) + 1, Len(generated'))

\* The threat alerts of the step that reference the event and the indicator.
ThreatAlertsFor(event, threat_key) ==
    {n \in DOMAIN NewAlerts :
        /\ NewAlerts[n].type = "threat_alert"
        /\ NewAlerts[n].event = event
        /\ ThreatKey(NewAlerts[n].threat.indicator_type,
                     NewAlerts[n].threat.value) = threat_key}

\* The events handed to processing in the step that match the indicator.
Hits(threat_key) ==
    {i \in DOMAIN log_cycle'.handed : threat_key \in Matches(log_cycle'.handed[i])}

\* C11: threat correlation.  Every processed event adds exactly 1 to the
\* count of each indicator it matches, whose last_seen becomes the event's
\* timestamp, and yields exactly one threat alert referencing the event and
\* that indicator; an event yields no threat alert for an indicator it does
\* not match.
C11_ThreatCorrelation ==
    [][ \A threat_key \in DOMAIN threat_indicators :
          /\ threat_indicators'[threat_key].count =
                 threat_indicators[threat_key].count + Cardinality(Hits(threat_key))
          /\ Hits(threat_key) # {} =>
                 threat_indicators'[threat_key].last_seen =
                     log_cycle'.handed[CHOOSE i \in Hits(threat_key) :
                                          \A j \in Hits(threat_key) : j <= i].timestamp
          /\ \A i \in DOMAIN log_cycle'.handed :
                 Cardinality(ThreatAlertsFor(log_cycle'.handed[i], threat_key)) =
                     IF i \in Hits(threat_key) THEN 1 ELSE 0
      ]_vars

\* C16: with export.syslog enabled every alert built has reached the syslog
\* sink, and no cycle was ended by the export.
C16_SyslogForwarding ==
    config.syslog =>
        /\ \A i \in DOMAIN generated : generated[i] \in Range(syslog_sink)
        /\ log_cycle.error # "AttributeError"

RECURSIVE ReturnedBy(_, _, _)
\* The events the parsers of sources[1..n] returned, in order.
ReturnedBy(returns, sources, n) ==
    IF n = 0 THEN <<>>
    ELSE ReturnedBy(returns, sources, n - 1) \o returns[sources[n]].events

\* C17: the events handed to processing in a cycle are exactly the events
\* the parsers called in that cycle returned, each once and in order, and
\* they are the newest entries of the event buffer, in that order.
C17_EveryEventOnce ==
    log_cycle.ran =>
        LET returned == ReturnedBy(log_cycle.returns, log_cycle.parsed,
                                   Len(log_cycle.parsed))
            handed == log_cycle.handed
        IN  /\ Len(handed) = Len(returned)
            /\ \A i \in DOMAIN handed :
                   /\ i <= Len(returned)
                   /\ handed[i] = SecurityEvent(handed[i].id, returned[i],
                                                handed[i].timestamp)
                   /\ \A j \in DOMAIN handed : handed[i].id = handed[j].id => i = j
            /\ LastN(events_buffer, Len(handed)) = handed

\* C20: source isolation.  In a cycle that no event processing ended, every
\* configured source that delivers is parsed and its events are handed to
\* processing, whatever the other sources do; and every source that failed
\* in the cycle before is looked up again.
C20_SourceIsolation ==
    (log_cycle.ran /\ log_cycle.error # "AttributeError") =>
        /\ \A log_type \in config.log_paths :
               log_cycle.returns[log_type].state = "ok" =>
                   /\ log_type \in Range(log_cycle.parsed)
                   /\ \A i \in DOMAIN log_cycle.returns[log_type].events :
                          \E n \in DOMAIN log_cycle.handed :
                              log_cycle.handed[n] =
                                  SecurityEvent(log_cycle.handed[n].id,
                                      log_cycle.returns[log_type].events[i],
                                      log_cycle.handed[n].timestamp)
        /\ log_cycle.failed_before \subseteq Range(log_cycle.visited)

(***************************************************************************)
(* Claims about the threat table and the alert log under all four loops,   *)
(* checked under SpecAlerting.                                             *)
(***************************************************************************)
\* The indicators the events handed to processing in the step match.
MatchedInStep ==
    UNION {Matches(log_cycle'.handed[i]) : i \in DOMAIN log_cycle'.handed}

\* C12: in every step of every loop the table keeps its keys and no count
\* decreases; an indicator changes only in a step of the log-collection
\* loop that processes an event, and only if one of the events processed
\* in that step matches its key.
C12_SingleWriter ==
    [][ /\ DOMAIN threat_indicators' = DOMAIN threat_indicators
        /\ \A threat_key \in DOMAIN threat_indicators :
               /\ threat_indicators'[threat_key].count >=
                      threat_indicators[threat_key].count
               /\ threat_indicators'[threat_key] # threat_indicators[threat_key]
                      => /\ events_appended' > events_appended
                         /\ log_cycle'.ran
                         /\ threat_key \in MatchedInStep
      ]_vars

\* An indicator was hit twice and the other never, and since then each of
\* the other loops has run.
C12_Witness ==
    /\ threat_indicators[ThreatKey("ip", KnownIp)].count >= 2
    /\ threat_indicators[ThreatKey("hash", KnownHash)].count = 0
    /\ samples_made > AlertingFill
    /\ cycle.ran
    /\ metrics_file # {}

\* C15: every alert a step builds is appended, once and in order, to the
\* end of the alert log, whose earlier records stay as they are; when the
\* write fails, the log is left as it is, each failure is logged, and no
\* error reaches the loop: the cycle is not cut short.
C15_AlertLogAppend ==
    [][ /\ Len(generated') >= Len(generated)
        /\ SubSeq(generated', 1, Len(generated)) = generated
        /\ alert_log_writable => alert_log' = alert_log \o NewAlerts
        /\ (~alert_log_writable /\ NewAlerts # <<>>) =>
               /\ alert_log' = alert_log
               /\ Len(SelectSeq(logged', LAMBDA msg :
                                    msg = "Failed to write alert to file"))
                      = Len(NewAlerts)
               /\ \A loop \in Loops : LoopError(loop) \notin Range(logged')
      ]_vars

(***************************************************************************)
(* Claims about the four tasks and the running flag, checked under         *)
(* SpecRunLive.                                                            *)
(***************************************************************************)
AllDone == \A loop \in Loops : pc[loop] = "done"

\* What the cycles of the four loops write.
collected_vars == <<events_buffer, metrics_buffer, baseline_metrics, alert_log,
                    metrics_file, samples_made, events_appended, cycle,
                    baseline_source, threat_indicators, syslog_sink, generated,
                    log_cycle>>

\* With the flag cleared a loop only comes out of the sleep it is in and
\* then leaves its while; no cycle runs.
StopsCleanly ==
    (~running) =>
        /\ UNCHANGED collected_vars
        /\ ~running'
        /\ \A loop \in Loops :
              \/ pc'[loop] = pc[loop]
              \/ pc[loop] \in {"sleep", "backoff"} /\ pc'[loop] = "top"
              \/ pc[loop] = "top" /\ pc'[loop] = "done"

\* C18: once stop_collection has cleared the running flag, each of the four
\* loops finishes the sleep that ends the cycle it is in (nothing takes it
\* out of that sleep but the sleep returning), runs no further cycle, and
\* eventually leaves its while loop.
C18_Cancellation ==
    /\ [][StopsCleanly]_vars
    /\ (~running) ~> AllDone

\* The flag was cleared after cycles had run and every loop has returned.
C18_Witness ==
    /\ ~running
    /\ AllDone
    /\ samples_made > AlertingFill
    /\ log_cycle.ran

\* The step is an iteration of this loop.
Iterates(loop) == pc[loop] = "top" /\ pc'[loop] # "top" /\ running

\* With the flag set no loop leaves its while; an iteration of a loop moves
\* that loop only, into one of the two sleeps, and into the longer one
\* together with the logged error exactly when the cycle raised.
KeepsGoing ==
    running =>
        /\ \A loop \in Loops : pc'[loop] = "done" => pc[loop] = "done"
        /\ \A loop \in Loops :
              Iterates(loop) =>
                  /\ pc'[loop] \in {"sleep", "backoff"}
                  /\ pc'[loop] = "backoff" <=> LoopError(loop) \in Range(logged')
                  /\ \A other \in Loops \ {loop} : pc'[other] = pc[other]
                  /\ running'
        /\ Iterates("log") /\ log_cycle'.error # "none" => pc'["log"] = "backoff"
        /\ Iterates("export") /\ config.elasticsearch => pc'["export"] = "backoff"
        /\ Iterates("metric") /\ config.syslog /\ Len(generated') > Len(generated)
              => pc'["metric"] = "backoff"
        /\ Iterates("anomaly") /\ cycle'.error # "none"
              => pc'["anomaly"] = "backoff"

\* C19: while the running flag is true, a cycle that raises in any of the
\* four loops ends neither that loop nor another one: the loop logs its
\* error, sleeps the back-off and is at its while again.
C19_Continuity ==
    /\ [][KeepsGoing]_vars
    /\ \A loop \in Loops : (pc[loop] = "backoff") ~> (pc[loop] = "top")

\* Every loop has had a failing cycle and none has returned.
C19_Witness == running /\ \A loop \in Loops : pc[loop] = "backoff"

(***************************************************************************)
(* Claims about the detection cycle's windows, checked under SpecWindows.  *)
(***************************************************************************)
\* The step is one of the metric-collection loop.
MetricStep == samples_made' = samples_made + 1

\* While a cycle is in progress a step of the metric loop leaves the list
\* and the baseline alone; the checks read the samples that were the ten
\* most recent when the list was built; a baseline established in the cycle
\* is that of the fifty samples that were most recent when it was established.
WindowsFixed ==
    /\ detect.at # "idle" /\ MetricStep =>
          /\ detect' = detect
          /\ baseline_metrics' = baseline_metrics
          /\ baseline_source' = baseline_source
    /\ detect.at = "baselined" /\ detect'.at = "idle" =>
          /\ detect'.used = LastN(detect.taken_from, RECENT_WINDOW)
          /\ cycle'.outcome =
                 CheckMetrics(config, baseline_metrics,
                              LastN(detect.taken_from, RECENT_WINDOW),
                              clock).outcome
    /\ detect.at = "copied" /\ baseline_metrics' # baseline_metrics =>
          baseline_metrics' =
              [m \in Range(MonitoredMetrics) |->
                  BaselineOf(Values(LastN(metrics_buffer, BASELINE_WINDOW), m))]

\* C21: the ten most recent samples a detection cycle checks, and the fifty
\* samples of a baseline it establishes, are copies taken by the cycle: an
\* append or eviction by the metric loop while the cycle is in progress
\* changes neither window nor what is computed from it.
C21_CopyOnRead == [][WindowsFixed]_vars

\* The checks have run on a list built before the metric loop appended to a
\* full buffer, evicting its oldest sample.
C21_Witness ==
    /\ detect.at = "idle"
    /\ detect.used # <<>>
    /\ Len(detect.taken_from) = METRICS_MAXLEN
    /\ detect.taken_from # metrics_buffer
    /\ cycle.detected

(***************************************************************************)
(* Claims about the metric loop's sub-collectors, checked under            *)
(* SpecCollect.                                                            *)
(***************************************************************************)
\* The sub-collector logged its failure in this step.
FailedInStep(collector) == CollectorError(collector) \in Range(logged')

\* The snapshot the step appended.
Appended == metrics_buffer'[Len(metrics_buffer')]

\* One cycle: one snapshot more, the earlier ones as they were; the fields of
\* a sub-collector that failed are 0 (disk_usage empty), those of one that
\* did not are the host's readings; and the cycle reaches the loop's except
\* branch only through an alert, never through the failure.
OneSnapshotPerCycle ==
    LET host == HostAt(scenario, samples_made + 1)
    IN  /\ Len(metrics_buffer') = Len(metrics_buffer) + 1
        /\ SubSeq(metrics_buffer', 1, Len(metrics_buffer)) = metrics_buffer
        /\ Appended.id = samples_made + 1
        /\ IF FailedInStep("system")
             THEN /\ Appended.cpu_usage = 0
                  /\ Appended.memory_usage = 0
                  /\ Appended.disk_usage = EmptyDict
                  /\ Appended.active_processes = 0
             ELSE /\ Appended.cpu_usage = host.cpu_percent
                  /\ Appended.memory_usage = host.memory_percent
                  /\ Appended.disk_usage = host.disk_percent
                  /\ Appended.active_processes = host.pids
        /\ Appended.network_connections =
               IF FailedInStep("network") THEN 0 ELSE host.net_connections
        /\ Appended.compliance_score = COMPLIANCE_SCORE
        /\ LoopError("metric") \in Range(logged') =>
               config.syslog /\ Len(generated') > Len(generated)

\* C22: every metric-collection cycle appends exactly one snapshot whichever
\* sub-collectors fail; a failed sub-collector contributes nothing and
\* raises nothing, and each snapshot field it would have supplied is 0
\* (the empty map for disk_usage).
C22_PartialSnapshot == [][OneSnapshotPerCycle]_vars

\* Three cycles: in one the system sub-collector failed, in one the network
\* sub-collector did, in one both did; three snapshots are in the buffer.
C22_Witness ==
    /\ Len(metrics_buffer) = 3
    /\ \E i, j, k \in 1..3 :
          /\ metrics_buffer[i].cpu_usage = 0
          /\ metrics_buffer[i].network_connections # 0
          /\ metrics_buffer[j].cpu_usage # 0
          /\ metrics_buffer[j].network_connections = 0
          /\ metrics_buffer[k].disk_usage = EmptyDict
          /\ metrics_buffer[k].network_connections = 0

(***************************************************************************)
(* Claims about _load_config, checked under SpecConfig.                    *)
(***************************************************************************)
\* The keys the file gives at the top level, and under a top-level map.
Given == IF config_file.kind = "mapping" THEN DOMAIN config_file.data ELSE {}

GivenUnder(key) == IF key \in Given THEN DOMAIN config_file.data[key] ELSE {}

\* C23: in the loaded configuration every recognized key the file omits,
\* top-level or nested under log_paths, thresholds, retention or export, has
\* its default value; a missing or unparsable file yields exactly the
\* defaults.
C23_ConfigDefaults ==
    \A loaded \in loaded_config :
        /\ DOMAIN loaded = DOMAIN default_config
        /\ \A key \in DOMAIN default_config \ Given :
               loaded[key] = default_config[key]
        /\ \A key \in MapKeys :
               \A name \in DOMAIN default_config[key] \ GivenUnder(key) :
                   /\ name \in DOMAIN loaded[key]
                   /\ loaded[key][name] = default_config[key][name]
        /\ config_file.kind # "mapping" => loaded = default_config

(***************************************************************************)
(* Claims about the parsers, checked under SpecParse.  The lines of a      *)
(* batch are the pieces of the content between its line feeds.             *)
(***************************************************************************)
BatchLines == Split(log_content)

\* Type and severity of each event, in order.
Shapes(events) ==
    [i \in DOMAIN events |->
        [event_type |-> events[i].event_type, severity |-> events[i].severity]]

RECURSIVE Flatten(_, _)
\* seqs[1] \o ... \o seqs[n]
Flatten(seqs, n) == IF n = 0 THEN <<>> ELSE Flatten(seqs, n - 1) \o seqs[n]

\* Number of lines of the batch that contain the pattern.
LinesWith(pattern) ==
    Cardinality({i \in DOMAIN BatchLines : Contains(BatchLines[i], pattern)})

\* Number of web_access events of a severity in the list returned.
WebEvents(severity) ==
    Cardinality({i \in DOMAIN parsed_events.events :
                    /\ parsed_events.events[i].event_type = "web_access"
                    /\ parsed_events.events[i].severity = severity})

\* C24: for the apache and nginx parsers every line containing " 403 "
\* yields a web_access event of severity medium and every line containing
\* " 404 " yields one of severity low; so a batch yields at least as many
\* medium events as it has lines with " 403 ", and as many low events as it
\* has lines with " 404 ".
C24_WebClassification ==
    parsed_events.log_type \in {"apache", "nginx"} =>
        /\ WebEvents("medium") >= LinesWith(<<" ", "403", " ">>)
        /\ WebEvents("low") >= LinesWith(<<" ", "404", " ">>)

\* What the claim says a line of the auth log yields.
AuthExpected(line) ==
    IF line # <<>> /\ Contains(line, <<"Failed", " ", "password">>)
      THEN <<[event_type |-> "authentication_failure", severity |-> "medium"]>>
      ELSE IF line # <<>> /\ Contains(line, <<"Accepted", " ", "password">>)
             THEN <<[event_type |-> "authentication_success", severity |-> "info"]>>
             ELSE <<>>

\* C25: the auth parser yields exactly one event per non-empty line that
\* contains a trigger: authentication_failure / medium when the line
\* contains "Failed password", otherwise authentication_success / info when
\* it contains "Accepted password"; a line containing neither yields none.
C25_AuthClassification ==
    parsed_events.log_type = "auth" =>
        Shapes(parsed_events.events) =
            Flatten([i \in DOMAIN BatchLines |-> AuthExpected(BatchLines[i])],
                    Len(BatchLines))

\* The batch had a line with each trigger and one with both, and the parser
\* returned.
C25_Witness ==
    /\ parsed_events.log_type = "auth"
    /\ Len(parsed_events.events) = MaxLines
    /\ \E i, j \in DOMAIN BatchLines :
          /\ Contains(BatchLines[i], <<"Failed", " ", "password">>)
          /\ Contains(BatchLines[i], <<"Accepted", " ", "password">>)
          /\ ~Contains(BatchLines[j], <<"Failed", " ", "password">>)
          /\ Contains(BatchLines[j], <<"Accepted", " ", "password">>)

\* The keywords of the syslog parser, in any of the spellings of the model.
Spellings(word) ==
    {<<piece>> : piece \in {word} \cup
        (CASE word = "error" -> {"ERROR"}
           [] word = "warning" -> {"Warning"}
           [] word = "critical" -> {"CRITICAL"}
           [] word = "alert" -> {"Alert"})}

HasKeyword(line, words) ==
    \E word \in words : ContainsAny(line, Spellings(word))

\* What the claim says a line of the syslog yields.
SyslogExpected(line) ==
    IF HasKeyword(line, {"error", "warning", "critical", "alert"})
      THEN <<[event_type |-> "system_event",
              severity |-> IF HasKeyword(line, {"critical", "alert"})
                             THEN "high" ELSE "medium"]>>
      ELSE <<>>

\* C26: the syslog parser yields one system_event per line that contains,
\* in any case, one of error, warning, critical, alert; its severity is high
\* when the line contains critical or alert and medium otherwise; other
\* lines yield no event.
C26_SyslogClassification ==
    parsed_events.log_type = "syslog" =>
        Shapes(parsed_events.events) =
            Flatten([i \in DOMAIN BatchLines |-> SyslogExpected(BatchLines[i])],
                    Len(BatchLines))

\* The batch had an upper-case ERROR line and a line with CRITICAL, and the
\* parser returned a medium and a high event.
C26_Witness ==
    /\ parsed_events.log_type = "syslog"
    /\ \E i \in DOMAIN BatchLines : Contains(BatchLines[i], <<"ERROR">>)
    /\ \E i \in DOMAIN BatchLines : Contains(BatchLines[i], <<"CRITICAL">>)
    /\ {parsed_events.events[i].severity : i \in DOMAIN parsed_events.events}
           = {"medium", "high"}

\* C27: for every parser and every batch, each line yields at most one
\* event, decided from that line alone; the events are in the order of
\* their lines; empty and unmatched lines yield nothing and change nothing
\* for the other lines.
C27_LineOriented ==
    parsed_events.log_type \in LogTypes =>
        Shapes(parsed_events.events) =
            Flatten([i \in DOMAIN BatchLines |->
                        Shapes(LineEvents(parsed_events.log_type, BatchLines[i]))],
                    Len(BatchLines))

(***************************************************************************)
(* Claims about the metrics export, checked under SpecExport.              *)
(***************************************************************************)
\* The step is an export step in which _export_prometheus_metrics was
\* called and logged no failure.
ExportSucceeds ==
    /\ samples_made' = samples_made
    /\ config.prometheus
    /\ PrometheusError \notin Range(logged')

\* After a successful export the file holds the four gauges of the newest
\* snapshot and nothing else; with an empty buffer it is as it was.
LatestOnly ==
    ExportSucceeds =>
        IF metrics_buffer = <<>>
          THEN metrics_file' = metrics_file
          ELSE LET m == metrics_buffer[Len(metrics_buffer)]
               IN  metrics_file' =
                       {[security_cpu_usage |-> m.cpu_usage,
                         security_memory_usage |-> m.memory_usage,
                         security_network_connections |-> m.network_connections,
                         security_compliance_score |-> m.compliance_score]}

\* C28: after every successful export step the metrics file holds exactly
\* the four gauges of the newest snapshot in MetricsBuffer at the time of
\* the export, nothing of earlier snapshots remaining; with an empty buffer
\* the export step writes nothing.
C28_MetricsExport == [][LatestOnly]_vars

\* The file holds the gauges of the second snapshot, which differ from those
\* of the first.
C28_Witness ==
    /\ Len(metrics_buffer) = 2
    /\ metrics_file = {Gauges(metrics_buffer[2])}
    /\ Gauges(metrics_buffer[1]) # Gauges(metrics_buffer[2])
    /\ logged = <<>>

(***************************************************************************)
(* Claims about the buffered entries, checked under SpecFull.              *)
(***************************************************************************)
\* new is old after `added` appends to a deque of capacity maxlen: the
\* entries of old that remain are its newest, unchanged and in their order,
\* at the head of new, and an entry of old is gone only if new is full.
GrownBy(old, new, added, maxlen) ==
    LET kept == Len(new) - added
    IN  /\ kept \in 0..Len(old)
        /\ kept < Len(old) => Len(new) = maxlen
        /\ SubSeq(new, 1, kept) = SubSeq(old, Len(old) - kept + 1, Len(old))

BuffersGrow ==
    /\ GrownBy(events_buffer, events_buffer',
               events_appended' - events_appended, EVENTS_MAXLEN)
    /\ GrownBy(metrics_buffer, metrics_buffer',
               samples_made' - samples_made, METRICS_MAXLEN)

\* C29: buffered entries are immutable.  No step of any loop changes a
\* SecurityEvent already in events_buffer or a SystemMetrics snapshot already
\* in metrics_buffer; a buffer changes only by entries appended at its tail
\* and, when it is full, evicted at its head.
C29_BufferedImmutable == [][BuffersGrow]_vars

\* Both buffers have evicted at their head, events were processed and the
\* detector has read the snapshots.
C29_Witness ==
    /\ events_appended > EVENTS_MAXLEN
    /\ samples_made > METRICS_MAXLEN
    /\ Len(events_buffer) = EVENTS_MAXLEN
    /\ Len(metrics_buffer) = METRICS_MAXLEN
    /\ cycle.detected
    /\ metrics_file # {}

(***************************************************************************)
(* Claims about the severities of buffered events, checked under           *)
(* SpecSeverity.                                                           *)
(***************************************************************************)
Severities == {"critical", "high", "medium", "low", "info"}

\* C30: every SecurityEvent in events_buffer, in every reachable state, has
\* a severity that is one of critical, high, medium, low, info.
C30_SeverityDomain ==
    \A i \in DOMAIN events_buffer : events_buffer[i].severity \in Severities

\* The buffer holds two syslog events of different severities, one of them
\* built from a line with the keyword "warning" in some spelling.
C30_Witness ==
    /\ Len(events_buffer) = 2
    /\ events_buffer[1].source = "syslog"
    /\ events_buffer[1].severity # events_buffer[2].severity
    /\ \E e \in limits.inputs["syslog"] :
           /\ Contains(Lower(e.log_line), <<"warning">>)
           /\ e.severity = events_buffer[1].severity

\* The log loop over one tailed source, with and without indicators in the
\* table and with the syslog export on and off.
TailedInit ==
    /\ TailAtRest
    /\ \E log_type \in Range(LogOrder) :
           \E content \in Contents(log_type) :
               StartedInit({[cfg EXCEPT !.log_paths = {log_type}] :
                               cfg \in Configs},
                           {NoIndicators, KnownIndicators},
                           [samples |-> 0, events |-> 2, batch |-> 2,
                            anomaly_alerts |-> 0,
                            inputs |-> [t \in {log_type} |->
                                           ParserOutput(t, content)],
                            faults |-> {}, calls |-> 0, clock |-> 0])

TailedNext == LogCollectEvents

SpecTailed == TailedInit /\ [][TailedNext]_vars

\* The metric loop on the host under load, from the last sample of its
\* first phase (every reading one below its threshold; the next phase is at
\* the thresholds) and from the last sample of its second phase (the next is
\* one above them), and on a quiet host; a sub-collector may fail.
ResourceInit ==
    /\ TailAtRest
    /\ config \in Configs
    /\ scenario \in {1, Len(Scenarios)}
    /\ samples_made \in {PhaseLen - 2, 2 * PhaseLen - 2}
    /\ events_appended = 0
    /\ metrics_buffer = FilledMetrics(scenario, samples_made)
    /\ events_buffer = <<>>
    /\ baseline_metrics = NoBaseline
    /\ alert_log = <<>>
    /\ metrics_file = {}
    /\ limits = [samples |-> samples_made + 3, events |-> 0, batch |-> 0,
                 anomaly_alerts |-> 0, inputs |-> NoInputs,
                 faults |-> Fallible, calls |-> 0, clock |-> 0]
    /\ cycle = NoCycle
    /\ baseline_source = <<>>
    /\ running = TRUE
    /\ pc = [loop \in Loops |-> "top"]
    /\ threat_indicators = NoIndicators
    /\ clock = 0
    /\ alert_log_writable = TRUE
    /\ syslog_sink = <<>>
    /\ generated = <<>>
    /\ logged = <<>>
    /\ log_cycle = NoLogCycle
    /\ UnitsAtRest

ResourceNext == MetricCollect

SpecResource == ResourceInit /\ [][ResourceNext]_vars

\* The log is truncated in place (copytruncate, `> file`): the same file,
\* its identity kept, now holds only its first n bytes.
FsTruncate ==
    /\ fs_exists
    /\ \E n \in 0..(Len(fs_content) - 1) :
           fs_content' = SubSeq(fs_content, 1, n)
    /\ UNCHANGED collector_vars
    /\ UNCHANGED <<unit_vars, fleet_vars>>
    /\ UNCHANGED <<fs_exists, fs_inode, fs_readable, next_byte, last_position,
                   last_inode, tail_pc, delivered, seen, call>>

\* The tailer against a log that is appended to and truncated in place.
TruncateInit == TailAtRest /\ CollectorAtRest

TruncateNext ==
    \/ FsAppend
    \/ FsTruncate
    \/ ParseStat
    \/ ParseRead

SpecTruncate == TruncateInit /\ [][TruncateNext]_vars

(***************************************************************************)
(* parse_new_events with its parser: the bytes a writer appends to the log *)
(* are the pieces of one line of the parser's log, the next line beginning *)
(* where the last ended.                                                   *)
(***************************************************************************)
LineOf(log_type) ==
    CASE log_type = "auth" -> <<"Failed", " ", "password", "\n">>
      [] log_type = "syslog" -> <<"disk", " ", "error", "\n">>
      [] log_type = "audit" -> <<"type=", "SYSCALL", " ", "\n">>
      [] log_type \in {"apache", "nginx"} -> <<" ", "403", " ", "\n">>

\* The text of byte b of the log, and of a run of bytes.
ByteText(log_type, b) ==
    LineOf(log_type)[((b - 1) % Len(LineOf(log_type))) + 1]

TextOf(log_type, bytes) ==
    [i \in DOMAIN bytes |-> ByteText(log_type, bytes[i])]

\* The second half of parse_new_events: the read, and on success the events
\* _parse_content builds from new_content; [] when the read failed.
ReadAndParse ==
    /\ ReadStep
    /\ IF call'.result = "ok"
         THEN /\ log_content' = TextOf(parsed_events.log_type, call'.chunk)
              /\ parsed_events' =
                     [parsed_events EXCEPT
                         !.events = @ \o ParseContent(parsed_events.log_type,
                                                      log_content')]
         ELSE UNCHANGED <<log_content, parsed_events>>
    /\ UNCHANGED <<config_file, loaded_config, detect>>

\* The tailer of one parser at rest on a readable, empty log.
ChunksInit ==
    /\ TailAtRest
    /\ CollectorFresh
    /\ config_file = NoConfigFile
    /\ loaded_config = {}
    /\ log_content = <<>>
    /\ parsed_events \in {[log_type |-> log_type, events |-> <<>>] :
                             log_type \in Range(LogOrder)}
    /\ detect = NoDetect
    /\ FleetAtRest

ChunksNext ==
    \/ FsAppend
    \/ ParseStat
    \/ ReadAndParse

SpecChunks == ChunksInit /\ [][ChunksNext]_vars

(***************************************************************************)
(* The fleet agent (src/src/fleet/agent.py).  The management server is the *)
(* environment: every request the agent makes ends as the environment      *)
(* chooses, and a poll that is answered names whatever tasks the server    *)
(* reports as pending.                                                     *)
(***************************************************************************)
\* How a request can end: a reply of status 200 with a JSON body, one with a
\* body that is no JSON, a reply of another status, no connection, no reply
\* within the timeout.
RequestOutcomes ==
    {"ok", "bad_json", "status_404", "status_500", "connect_error", "timeout"}

FailedOutcomes == RequestOutcomes \ {"ok"}

\* Task ids the management server knows.
TaskPool == {"t1", "t2"}

\* Replies to the poll: a mapping whose key "tasks" lists no task or one
\* (or that has no such key), or a JSON list.
PollBodies ==
    {[shape |-> "dict", tasks |-> tasks] :
        tasks \in UNION {[1..n -> TaskPool] : n \in 0..1}}
    \cup {[shape |-> "list", tasks |-> <<>>]}

\* Reply to the registration and to the heartbeat.
Acknowledged == [shape |-> "dict", tasks |-> <<>>]

\* Mutant of MakeRequest: the try around client.request is missing.
MakeRequestUncaught(client, outcome, body) ==
    IF client # "open" THEN [raised |-> FALSE, value |-> {}, error |-> <<>>]
    ELSE IF outcome = "ok" THEN [raised |-> FALSE, value |-> {body}, error |-> <<>>]
    ELSE IF outcome \in {"connect_error", "timeout", "bad_json"}
      THEN [raised |-> TRUE, value |-> {}, error |-> <<>>]
    ELSE [raised |-> FALSE, value |-> {}, error |-> <<"Request failed">>]

\* _make_request: None (value {}) without a client, after a reply whose
\* status is not 200 and after any exception of the request or of
\* response.json(); the decoded body otherwise.  Nothing is raised.
MakeRequest(client, outcome, body) ==
    IF client # "open" THEN [raised |-> FALSE, value |-> {}, error |-> <<>>]
    ELSE IF outcome = "ok" THEN [raised |-> FALSE, value |-> {body}, error |-> <<>>]
    ELSE IF outcome \in {"connect_error", "timeout", "bad_json"}
      THEN [raised |-> FALSE, value |-> {}, error |-> <<"Request error">>]
    ELSE [raised |-> FALSE, value |-> {}, error |-> <<"Request failed">>]

\* `if response:` -- None and an empty mapping or list are false.
Truthy(value) ==
    \E body \in value : body.shape = "list" \/ body.shape = "dict"

\* One request as the observations record it.
Requested(client, endpoint, outcome, r) ==
    [client |-> client, endpoint |-> endpoint, outcome |-> outcome,
     value |-> r.value, raised |-> r.raised]

\* register_node: True when the reply is there; response.get on a reply that
\* is a list raises AttributeError.
RegisterNode(client, outcome, body) ==
    LET r == MakeRequest(client, outcome, body)
    IN  [request |-> Requested(client, "/api/v1/fleet/register", outcome, r),
         raised |-> r.raised \/ (\E b \in r.value : b.shape = "list"),
         ok |-> Truthy(r.value),
         logged |-> r.error
                    \o (IF Truthy(r.value) THEN <<>>
                        ELSE <<"Failed to register node">>)]

\* send_heartbeat: response is not None.
SendHeartbeat(client, outcome, body) ==
    LET r == MakeRequest(client, outcome, body)
    IN  [request |-> Requested(client, "/api/v1/fleet/heartbeat", outcome, r),
         raised |-> r.raised, ok |-> r.value # {}, logged |-> r.error]

\* check_for_tasks: response.get("tasks", []) of a reply, [] without one;
\* a reply that is a list raises AttributeError.
CheckForTasks(client, outcome, body) ==
    LET r == MakeRequest(client, outcome, body)
    IN  [request |-> Requested(client, "/api/v1/fleet/tasks", outcome, r),
         raised |-> r.raised \/ (\E b \in r.value : b.shape = "list"),
         tasks |-> IF \E b \in r.value : b.shape = "dict"
                     THEN (CHOOSE b \in r.value : TRUE).tasks ELSE <<>>,
         logged |-> r.error]

\* report_task_result: response is not None.
ReportTaskResult(client, outcome, body) ==
    LET r == MakeRequest(client, outcome, body)
    IN  [request |-> Requested(client, "/api/v1/fleet/tasks/{task_id}/result", outcome, r),
         raised |-> r.raised, ok |-> r.value # {}, logged |-> r.error]

\* cleanup_old_tasks: the finished executions that completed more than 24
\* hours before `now` are deleted.
CleanupOldTasks(active_tasks, now) ==
    LET keep == {task_id \in DOMAIN active_tasks :
                    ~ /\ active_tasks[task_id].status \in {"completed", "failed"}
                      /\ active_tasks[task_id].completed_at >= 0
                      /\ active_tasks[task_id].completed_at < now - 86400}
    IN  [task_id \in keep |-> active_tasks[task_id]]

\* The except and finally branches of run: the error is logged, the flag is
\* cleared and the client closed.
AgentStopped(a, errors) ==
    [a EXCEPT !.running = FALSE, !.client = "closed", !.pc = "done",
              !.logged = errors]

\* run, lines 383-395: the client is created, the flag set, the node
\* registered; a failed registration is logged and the loop is entered.
AgentRun ==
    /\ agent.pc = "new"
    /\ \E outcome \in RequestOutcomes, body \in {Acknowledged,
                                                 [shape |-> "list", tasks |-> <<>>]} :
           LET reg == RegisterNode("open", outcome, body)
               a == [agent EXCEPT !.client = "open", !.running = TRUE,
                                  !.requests = <<reg.request>>]
           IN  agent' =
                   IF reg.raised
                     THEN AgentStopped(a, reg.logged \o <<"Agent error">>)
                     ELSE [a EXCEPT !.pc = "top",
                               !.logged = reg.logged
                                   \o (IF reg.ok THEN <<>>
                                       ELSE <<"Failed to register node, continuing anyway...">>)]
    /\ UNCHANGED <<tail_vars, collector_vars, unit_vars, app_state>>

\* Handlers created for the tasks of one reply, in its order.
Spawned(tasks) ==
    [i \in DOMAIN tasks |-> [task_id |-> tasks[i], at |-> "scheduled"]]

\* One iteration of the loop of run, lines 397-418, up to its sleep: the
\* heartbeat when it is due, the poll, one handler per task of the reply,
\* the cleanup when it is due.
AgentIteration ==
    /\ agent.pc = "top"
    /\ agent.running
    /\ agent.polls < MaxPolls
    /\ \E hb_outcome \in RequestOutcomes, outcome \in RequestOutcomes,
          body \in PollBodies :
           LET current_time == agent.now
               due == current_time - agent.last_heartbeat
                          >= agent.config.heartbeat_interval
               hb == SendHeartbeat(agent.client, hb_outcome, Acknowledged)
               hb_raised == due /\ hb.raised
               poll == CheckForTasks(agent.client, outcome, body)
               cleaning == current_time - agent.last_cleanup >= 3600
               requests == (IF due THEN <<hb.request>> ELSE <<>>)
                           \o (IF hb_raised THEN <<>> ELSE <<poll.request>>)
               errors == (IF due THEN hb.logged ELSE <<>>)
                         \o (IF hb_raised THEN <<>> ELSE poll.logged)
               a == [agent EXCEPT !.polls = @ + 1, !.requests = requests]
           IN  /\ ~due => hb_outcome = "ok"
               /\ agent' =
                   IF hb_raised \/ poll.raised
                     THEN AgentStopped(
                              [a EXCEPT !.last_heartbeat =
                                            IF due /\ ~hb_raised
                                              THEN current_time ELSE @],
                              errors \o <<"Agent error">>)
                     ELSE [a EXCEPT
                              !.last_heartbeat = IF due THEN current_time ELSE @,
                              !.handlers = @ \o Spawned(poll.tasks),
                              !.active_tasks =
                                  IF cleaning
                                    THEN CleanupOldTasks(@, current_time) ELSE @,
                              !.last_cleanup =
                                  IF cleaning THEN current_time ELSE @,
                              !.pc = "sleep",
                              !.logged = errors]
    /\ UNCHANGED <<tail_vars, collector_vars, unit_vars, app_state>>

\* asyncio.sleep(check_interval) returns: the clock has moved on by the
\* interval and the loop tests its flag again.  The handlers created before
\* the sleep were started when the loop suspended.
AgentWake ==
    /\ agent.pc = "sleep"
    /\ \A i \in DOMAIN agent.handlers : agent.handlers[i].at # "scheduled"
    /\ agent' = IF agent.running
                  THEN [agent EXCEPT !.pc = "top",
                                     !.now = @ + agent.config.check_interval,
                                     !.requests = <<>>, !.logged = <<>>]
                  ELSE AgentStopped(
                           [agent EXCEPT !.now = @ + agent.config.check_interval,
                                         !.requests = <<>>],
                           <<>>)
    /\ UNCHANGED <<tail_vars, collector_vars, unit_vars, app_state>>

\* stop(): the flag is cleared; the loop sees it after its sleep.
AgentStop ==
    /\ agent.pc = "sleep"
    /\ agent.running
    /\ agent' = [agent EXCEPT !.running = FALSE, !.requests = <<>>,
                              !.logged = <<>>]
    /\ UNCHANGED <<tail_vars, collector_vars, unit_vars, app_state>>

\* TaskExecution as active_tasks holds it; completed_at is -1 for None, by
\* is the handler that built it.
TaskExecution(task_id, status, completed_at, by) ==
    [task_id |-> task_id, status |-> status, completed_at |-> completed_at,
     by |-> by]

\* _handle_task begins: execute_task, lines 270-284, builds the execution in
\* status running, stores it under the task's id and starts the command.
HandleExecute ==
    \E i \in DOMAIN agent.handlers :
        /\ agent.handlers[i].at = "scheduled"
        /\ agent.pc = "sleep"
        /\ \A j \in 1..(i - 1) : agent.handlers[j].at # "scheduled"
        /\ LET task_id == agent.handlers[i].task_id
           IN  agent' =
                   [agent EXCEPT
                       !.handlers[i].at = "executing",
                       !.active_tasks =
                           [t \in DOMAIN @ \cup {task_id} |->
                               IF t = task_id
                                 THEN TaskExecution(task_id, "running", -1, i)
                                 ELSE @[t]],
                       !.started = Append(@, task_id),
                       !.requests = <<>>, !.logged = <<>>]
        /\ UNCHANGED <<tail_vars, collector_vars, unit_vars, app_state>>

\* The execution handler i holds, stored back where active_tasks still
\* holds that object.
Finished(active_tasks, task_id, i, status, now) ==
    IF task_id \in DOMAIN active_tasks /\ active_tasks[task_id].by = i
      THEN [active_tasks EXCEPT ![task_id] =
                                    TaskExecution(task_id, status, now, i)]
      ELSE active_tasks

\* The command of a handler ends: execute_task, lines 294-308, sets the
\* status from the exit code, and _handle_task reports the result; an
\* exception of either is logged by _handle_task.
HandleReport ==
    \E i \in DOMAIN agent.handlers :
        /\ agent.handlers[i].at = "executing"
        /\ agent.pc \in {"sleep", "done"}
        /\ \E status \in {"completed", "failed"}, outcome \in RequestOutcomes :
               LET rep == ReportTaskResult(agent.client, outcome, Acknowledged)
               IN  agent' =
                       [agent EXCEPT
                           !.handlers[i].at = "reported",
                           !.active_tasks =
                               Finished(@, agent.handlers[i].task_id, i,
                                        status, agent.now),
                           !.requests = <<rep.request>>,
                           !.logged = rep.logged
                               \o (IF rep.raised
                                     THEN <<"Task handling error">> ELSE <<>>)]
        /\ UNCHANGED <<tail_vars, collector_vars, unit_vars, app_state>>

\* Configurations of the agent: the defaults, a heartbeat with every poll,
\* and a poll once in a little more than a day.
AgentConfigs ==
    {AgentConfig(60, 300), AgentConfig(60, 60), AgentConfig(90000, 300)}

\* The collector untouched, the agent constructed, the host's clock at a
\* time of day well past the epoch.
AgentInit ==
    /\ TailAtRest
    /\ CollectorFresh
    /\ config_file = NoConfigFile
    /\ loaded_config = {}
    /\ log_content = <<>>
    /\ parsed_events = NothingParsed
    /\ detect = NoDetect
    /\ agent \in {FleetAgent(cfg, 86400) : cfg \in AgentConfigs}
    /\ app_state = AppState

AgentNext ==
    \/ AgentRun
    \/ AgentIteration
    \/ AgentWake
    \/ AgentStop
    \/ HandleExecute
    \/ HandleReport

SpecAgent == AgentInit /\ [][AgentNext]_vars

(***************************************************************************)
(* Claims about the fleet agent, checked under SpecAgent.                  *)
(***************************************************************************)
\* A request that failed: it was made without an open client, or it ended
\* in anything but a reply of status 200 with a JSON body.
FailedRequest(req) == req.client # "open" \/ req.outcome \in FailedOutcomes

\* Every failed request of the last step returned None and raised nothing.
AbsentResults ==
    \A i \in DOMAIN agent.requests :
        FailedRequest(agent.requests[i]) =>
            /\ agent.requests[i].value = {}
            /\ ~agent.requests[i].raised

\* A step of run in which every request failed leaves the agent running,
\* its client open, and its loop at the next point: at the top after the
\* registration, at the sleep after an iteration.
LoopSurvives ==
    (/\ agent.pc \in {"new", "top"}
     /\ agent'.requests # <<>>
     /\ \A i \in DOMAIN agent'.requests : FailedRequest(agent'.requests[i]))
    => /\ agent'.running
       /\ agent'.client = "open"
       /\ agent'.pc = IF agent.pc = "new" THEN "top" ELSE "sleep"

\* A running agent leaves its sleep for the top of the loop, check_interval
\* later.
PollsAgain ==
    (agent.pc = "sleep" /\ agent.running /\ agent'.pc # "sleep")
    => /\ agent'.pc = "top"
       /\ agent'.running
       /\ agent'.now = agent.now + agent.config.check_interval

\* C31: agent tolerance of an unreachable server.  A failed request
\* (connection error, timeout, non-200 status, or no client) returns an
\* absent result and raises nothing, and the main loop keeps running through
\* failed registration, heartbeat and task polls, polling again after
\* check_interval.
C31_UnreachableServer == [][AbsentResults' /\ LoopSurvives /\ PollsAgain]_vars

\* The second iteration has sent a heartbeat and a poll, both failed, one
\* for lack of a connection and one by a status, and the agent sleeps before
\* the next.
C31_Witness ==
    /\ agent.polls = 2
    /\ agent.pc = "sleep"
    /\ agent.running
    /\ Len(agent.requests) = 2
    /\ agent.requests[1].outcome = "connect_error"
    /\ agent.requests[2].outcome = "status_500"
    /\ agent.started = <<>>

(***************************************************************************)
(* Claims about the tailer and its parser together, checked under          *)
(* SpecChunks.                                                             *)
(***************************************************************************)
\* C32: chunking independence.  The events produced from a source do not
\* depend on how its appended bytes are split across reads: once every byte
\* of the log has been read, the events returned so far are those the
\* parser builds from the log as a whole; a line whose bytes became visible
\* in two successive reads is classified exactly once, as the whole line.
C32_ChunkingIndependence ==
    (tail_pc = "idle" /\ delivered = fs_content)
        => parsed_events.events =
               ParseContent(parsed_events.log_type,
                            TextOf(parsed_events.log_type, fs_content))

(***************************************************************************)
(* Claims about truncation in place, checked under SpecTruncate.           *)
(***************************************************************************)
\* C33: after every successful parse_new_events call the stored offset is at
\* most the size the file had when the call read it, also when the file was
\* truncated in place; and every byte that was in the file at a successful
\* read, bytes appended after a truncation included, has been delivered.
C33_OffsetWithinFile ==
    (tail_pc = "idle" /\ call.result = "ok")
        => /\ last_position <= call.read_len
           /\ seen \subseteq Range(delivered)

(***************************************************************************)
(* Claims about the events of tailed logs, checked under SpecTailed.       *)
(***************************************************************************)
\* The event has user, process, network_info and file_info unset.
Bare(e) ==
    /\ e.user = None
    /\ e.process = None
    /\ e.network_info = NoInfo
    /\ e.file_info = NoInfo

\* C34: every SecurityEvent the five parsers build has user, process,
\* network_info and file_info unset, so processing the events of tailed logs
\* extracts no candidate indicator, changes no ThreatIndicator and emits no
\* threat alert, whatever the indicator table contains.
C34_NoIndicatorFromLogs ==
    /\ \A log_type \in DOMAIN limits.inputs :
           \A e \in limits.inputs[log_type] : Bare(e)
    /\ \A i \in DOMAIN events_buffer :
           Bare(events_buffer[i]) /\ Indicators(events_buffer[i]) = <<>>
    /\ \A threat_key \in DOMAIN threat_indicators :
           /\ threat_indicators[threat_key].count = 0
           /\ threat_indicators[threat_key].last_seen = -1
    /\ \A i \in DOMAIN generated : generated[i].type # "threat_alert"

\* Two events of a tailed log have been processed against a table that
\* holds indicators, and one of them raised a security alert.
C34_Witness ==
    /\ Len(events_buffer) = 2
    /\ DOMAIN threat_indicators # {}
    /\ \E i \in DOMAIN generated : generated[i].type = "security_alert"

(***************************************************************************)
(* Claims about the processing of one event, checked under SpecLog.        *)
(***************************************************************************)
\* The security alerts, and the threat alerts, the step has built for the
\* event.
SecurityAlertsFor(event) ==
    {n \in DOMAIN NewAlerts :
        NewAlerts[n].type = "security_alert" /\ NewAlerts[n].event = event}

ThreatAlertsOf(event) ==
    {n \in DOMAIN NewAlerts :
        NewAlerts[n].type = "threat_alert" /\ NewAlerts[n].event = event}

\* C35: processing an event emits exactly one security alert when the
\* event's severity is critical or high and none otherwise, and the threat
\* alerts of the event's indicator check all come before its security alert.
C35_AlertOnHighSeverity ==
    [][ \A i \in DOMAIN log_cycle'.handed :
          LET event == log_cycle'.handed[i]
          IN  /\ Cardinality(SecurityAlertsFor(event)) =
                     IF NeedsAlert(event) THEN 1 ELSE 0
              /\ \A n \in SecurityAlertsFor(event) :
                     \A m \in ThreatAlertsOf(event) : m < n
      ]_vars

(***************************************************************************)
(* Claims about resource alerts, checked under SpecResource.               *)
(***************************************************************************)
\* The resource alerts the step has built for the resource (and mount).
ResourceAlertsFor(resource_type, mount) ==
    {n \in DOMAIN NewAlerts :
        /\ NewAlerts[n].type = "resource_alert"
        /\ NewAlerts[n].resource_type = resource_type
        /\ NewAlerts[n].mount = mount}

\* One alert when the value is above the threshold, none otherwise.
AlertedIff(resource_type, mount, value, threshold) ==
    Cardinality(ResourceAlertsFor(resource_type, mount)) =
        IF value > threshold THEN 1 ELSE 0

\* C36: resource alerts.  For the snapshot a metric-collection cycle
\* appends, one resource alert is emitted for cpu, for memory and for
\* network exactly when the value is strictly greater than its threshold,
\* and one disk alert per mount point whose usage is strictly greater than
\* disk_high; a value equal to its threshold emits none; and the snapshot is
\* in metrics_buffer when its alerts are emitted.
C36_ResourceAlerts ==
    [][ samples_made' = samples_made + 1 =>
          LET m == metrics_buffer'[Len(metrics_buffer')]
          IN  /\ m.id = samples_made'
              /\ AlertedIff("cpu", "None", m.cpu_usage, CPU_HIGH)
              /\ AlertedIff("memory", "None", m.memory_usage, MEMORY_HIGH)
              /\ AlertedIff("network", "None", m.network_connections,
                            NETWORK_CONNECTIONS_HIGH)
              /\ \A mount \in DOMAIN m.disk_usage :
                     AlertedIff("disk", mount, m.disk_usage[mount], DISK_HIGH)
      ]_vars

APIToken == "hardening-api-token"

\* What a request carries for authorization: no Authorization header, the
\* configured bearer token, or another bearer token.
Credentials == {"absent", APIToken, "wrong-token"}

\* security = HTTPBearer(), line 40: a request without bearer credentials is
\* answered by the dependency itself, with 403 or 401 by the version of the
\* framework, before get_current_user runs.
Unauthenticated == {401, 403}

\* The routes declared with Depends(get_current_user), lines 182-479.
ApiEndpoints ==
    {"/api/v1/status", "/api/v1/hardening/apply", "/api/v1/hardening/validate",
     "/api/v1/tasks/{task_id}", "/api/v1/tasks", "/api/v1/compliance/scan",
     "/api/v1/compliance/frameworks", "/api/v1/compliance/reports",
     "/api/v1/fleet/register", "/api/v1/fleet/nodes", "/api/v1/fleet/deploy",
     "/api/v1/fleet/metrics", "/api/v1/config/profiles",
     "/api/v1/config/modules", "/api/v1/webhooks/github",
     "/api/v1/webhooks/alerts"}

\* The routes that only read app_state or call a collaborator, with the
\* status codes their handlers end in: 500 where a collaborator's exception
\* is caught and raised as HTTPException, or where request.json() raises
\* and general_exception_handler answers.
QueryStatus ==
    [e \in {"/api/v1/status", "/api/v1/tasks", "/api/v1/compliance/frameworks",
            "/api/v1/fleet/nodes", "/api/v1/fleet/metrics",
            "/api/v1/config/modules"} |-> {200}]
    @@ [e \in {"/api/v1/hardening/validate", "/api/v1/compliance/reports",
               "/api/v1/config/profiles", "/api/v1/webhooks/github",
               "/api/v1/webhooks/alerts"} |-> {200, 500}]

\* A get_current_user that lets every bearer token through.
GetCurrentUserAny(credentials) ==
    [raised |-> FALSE, status_code |-> 200]

\* get_current_user, lines 133-138: HTTPException 401 unless the token is
\* the configured one.
GetCurrentUser(credentials) ==
    IF credentials # APIToken
    THEN [raised |-> TRUE, status_code |-> 401]
    ELSE [raised |-> FALSE, status_code |-> 200]

\* generate_task_id, lines 141-144: "task_" and eight hex digits of a fresh
\* uuid4; the n-th id generated, taken as different from the ids before it.
GenerateTaskId(issued) == <<"task_", issued + 1>>

\* app_state.active_tasks[task_id] = task, and registered_nodes likewise.
SetItem(dict, key, value) == (key :> value) @@ dict

\* TaskResult, lines 70-78; -1 is None for the two times.
TaskResult(task_id, status) ==
    [task_id |-> task_id, status |-> status, started_at |-> -1,
     completed_at |-> -1, result |-> None, error |-> None]

\* The response sent for a request: http_exception_handler, lines 435-445,
\* turns an HTTPException into a response of its status code.
Respond(state, endpoint, credentials, request, status_code) ==
    [state EXCEPT !.requests = @ + 1,
                  !.response = [endpoint |-> endpoint,
                                status_code |-> status_code,
                                credentials |-> credentials,
                                request |-> request]]

\* A route with user = Depends(get_current_user): the handler's body runs
\* only when the dependencies returned; served is app_state after the body.
Depends(endpoint, credentials, request, served) ==
    /\ app_state.requests < MaxRequests
    /\ \/ /\ credentials = "absent"
          /\ \E status_code \in Unauthenticated :
                 app_state' = Respond(app_state, endpoint, credentials,
                                      request, status_code)
       \/ /\ credentials # "absent"
          /\ GetCurrentUser(credentials).raised
          /\ app_state' = Respond(app_state, endpoint, credentials, request,
                                  GetCurrentUser(credentials).status_code)
       \/ /\ credentials # "absent"
          /\ ~GetCurrentUser(credentials).raised
          /\ app_state' = served
    /\ UNCHANGED <<tail_vars, collector_vars, unit_vars, agent>>

\* health_check, lines 173-180: no dependency, whatever the request carries.
HealthCheck ==
    /\ app_state.requests < MaxRequests
    /\ \E credentials \in Credentials :
           app_state' = Respond(app_state, "/health", credentials, <<>>, 200)
    /\ UNCHANGED <<tail_vars, collector_vars, unit_vars, agent>>

\* The read-only routes: get_system_status, validate_hardening, list_tasks,
\* list_compliance_frameworks, list_compliance_reports, list_fleet_nodes,
\* get_fleet_metrics, list_configuration_profiles, list_available_modules
\* and the two webhooks.
Query ==
    \E endpoint \in DOMAIN QueryStatus, credentials \in Credentials :
        \E status_code \in QueryStatus[endpoint] :
            Depends(endpoint, credentials, <<>>,
                    Respond(app_state, endpoint, credentials, <<>>,
                            status_code))

\* get_task_status, lines 242-249: 404 for an id active_tasks does not hold.
GetTaskStatus ==
    \E task_id \in {GenerateTaskId(n) : n \in 0..MaxRequests},
       credentials \in Credentials :
        Depends("/api/v1/tasks/{task_id}", credentials, task_id,
                Respond(app_state, "/api/v1/tasks/{task_id}", credentials,
                        task_id,
                        IF task_id \notin DOMAIN app_state.active_tasks
                        THEN 404 ELSE 200))

\* run_compliance_scan, lines 272-296: an id is generated and used in the
\* response only.
RunComplianceScan ==
    \E credentials \in Credentials, status_code \in {200, 500} :
        Depends("/api/v1/compliance/scan", credentials, <<>>,
                Respond([app_state EXCEPT !.issued = @ + 1],
                        "/api/v1/compliance/scan", credentials, <<>>,
                        status_code))

\* apply_hardening, lines 201-224: a pending TaskResult under a new id, and
\* execute_hardening_task handed to BackgroundTasks.
ApplyHardening ==
    \E credentials \in Credentials :
        LET task_id == GenerateTaskId(app_state.issued)
        IN  Depends("/api/v1/hardening/apply", credentials, <<>>,
                Respond([app_state EXCEPT
                            !.issued = @ + 1,
                            !.active_tasks =
                                SetItem(@, task_id,
                                          TaskResult(task_id, "pending")),
                            !.background =
                                Append(@, [task_id |-> task_id,
                                           at |-> "queued"])],
                        "/api/v1/hardening/apply", credentials, <<>>, 200))

\* execute_hardening_task up to its await, lines 148-154.
ExecuteStart ==
    \E i \in DOMAIN app_state.background :
        /\ app_state.background[i].at = "queued"
        /\ app_state' =
               [app_state EXCEPT
                   !.now = @ + 1,
                   !.background[i].at = "awaiting",
                   !.active_tasks[app_state.background[i].task_id] =
                       [@ EXCEPT !.status = "running",
                                 !.started_at = app_state.now]]
        /\ UNCHANGED <<tail_vars, collector_vars, unit_vars, agent>>

\* A task that ended in the except branch without its completion time.
FailedUnstamped(task, error, now) ==
    [task EXCEPT !.status = "failed", !.error = error]

\* Lines 160-162: the modules returned.
Completed(task, result, now) ==
    [task EXCEPT !.status = "completed", !.result = result,
                 !.completed_at = now]

\* Lines 164-168: the modules raised.
Failed(task, error, now) ==
    [task EXCEPT !.status = "failed", !.error = error, !.completed_at = now]

\* execute_hardening_task after its await, lines 160-169: execute_modules
\* returned a result or raised.
ExecuteFinish ==
    \E i \in DOMAIN app_state.background, raised \in BOOLEAN :
        /\ app_state.background[i].at = "awaiting"
        /\ app_state' =
               [app_state EXCEPT
                   !.now = @ + 1,
                   !.background[i].at = "done",
                   !.active_tasks[app_state.background[i].task_id] =
                       IF raised
                       THEN Failed(@, "module error", app_state.now)
                       ELSE Completed(@, "module results", app_state.now)]
        /\ UNCHANGED <<tail_vars, collector_vars, unit_vars, agent>>

\* Hostnames and addresses of the nodes that register.
Hostnames == {<<"web">>, <<"db">>}
Addresses == {<<"10.0.0.1">>}

\* f"{request.hostname}_{request.ip_address}", line 332.
NodeId(hostname, ip_address) == hostname \o <<"_">> \o ip_address

\* register_node, lines 326-349.
ApiRegisterNode ==
    \E hostname \in Hostnames, ip_address \in Addresses,
       credentials \in Credentials :
        LET node_id == NodeId(hostname, ip_address)
        IN  Depends("/api/v1/fleet/register", credentials,
                <<hostname, ip_address>>,
                Respond([app_state EXCEPT
                            !.registered_nodes =
                                SetItem(@, node_id,
                                    [id |-> node_id, hostname |-> hostname,
                                     ip_address |-> ip_address,
                                     registered_at |-> app_state.now,
                                     last_seen |-> app_state.now,
                                     status |-> "active"])],
                        "/api/v1/fleet/register", credentials,
                        <<hostname, ip_address>>, 200))

\* The target lists of deploy requests: up to two of the node ids that can
\* register and of one that never does.
TargetPool ==
    {NodeId(h, a) : h \in Hostnames, a \in Addresses} \cup {<<"nowhere">>}
Deployments ==
    {<<>>} \cup {<<t>> : t \in TargetPool}
           \cup {<<t, u>> : t \in TargetPool, u \in TargetPool}

\* A validation that finds no target invalid.
InvalidTargetsNone(targets, registered_nodes) == <<>>

\* Line 378: the targets that are no key of registered_nodes, in order.
InvalidTargets(targets, registered_nodes) ==
    SelectSeq(targets, LAMBDA t : t \notin DOMAIN registered_nodes)

\* deploy_to_fleet, lines 368-400: the id is generated first; HTTPException
\* 400 if a target is not registered, else a pending TaskResult.
DeployToFleet ==
    \E targets \in Deployments, credentials \in Credentials :
        LET task_id == GenerateTaskId(app_state.issued)
            with_id == [app_state EXCEPT !.issued = @ + 1]
        IN  Depends("/api/v1/fleet/deploy", credentials, targets,
                IF InvalidTargets(targets, app_state.registered_nodes) # <<>>
                THEN Respond(with_id, "/api/v1/fleet/deploy", credentials,
                             targets, 400)
                ELSE Respond([with_id EXCEPT
                                 !.active_tasks =
                                     SetItem(@, task_id,
                                         TaskResult(task_id, "pending"))],
                             "/api/v1/fleet/deploy", credentials, targets,
                             200))

\* The server as constructed, everything else untouched.
ApiInit ==
    /\ TailAtRest
    /\ CollectorAtRest
    /\ UnitsAtRest

ApiNext ==
    \/ HealthCheck
    \/ Query
    \/ GetTaskStatus
    \/ RunComplianceScan
    \/ ApplyHardening
    \/ ExecuteStart
    \/ ExecuteFinish
    \/ ApiRegisterNode
    \/ DeployToFleet

SpecApi == ApiInit /\ [][ApiNext]_vars

(***************************************************************************)
(* Claims about the API server, checked under SpecApi.                     *)
(***************************************************************************)
\* The moves of a task's status that execute_hardening_task makes.
StatusMoves ==
    {<<"pending", "running">>, <<"running", "completed">>,
     <<"running", "failed">>}

\* A request was handled in this step.
Handled == app_state'.requests = app_state.requests + 1

\* The step left the tasks and the nodes as they were.
RegistriesUnchanged ==
    /\ app_state'.active_tasks = app_state.active_tasks
    /\ app_state'.registered_nodes = app_state.registered_nodes

\* C38: API task lifecycle.  A hardening task's status only moves from
\* pending to running and from running to completed or failed; a task that
\* is completed or failed never changes again; completed_at is set exactly
\* when the status is completed or failed; and a task once created is never
\* removed from active_tasks.
C38_TaskLifecycle ==
    [][ /\ \A t \in DOMAIN app_state.active_tasks :
               /\ t \in DOMAIN app_state'.active_tasks
               /\ LET old == app_state.active_tasks[t]
                      new == app_state'.active_tasks[t]
                  IN  /\ \/ new.status = old.status
                         \/ <<old.status, new.status>> \in StatusMoves
                      /\ old.status \in {"completed", "failed"} => new = old
        /\ \A t \in DOMAIN app_state'.active_tasks :
               app_state'.active_tasks[t].completed_at # -1
                   <=> app_state'.active_tasks[t].status
                           \in {"completed", "failed"}
      ]_vars

\* Two tasks have run, one to completed and then one to failed, and the
\* status of a task was asked for after that.
C38_Witness ==
    /\ \E t, u \in DOMAIN app_state.active_tasks :
           /\ app_state.active_tasks[t].status = "completed"
           /\ app_state.active_tasks[u].status = "failed"
           /\ app_state.active_tasks[u].completed_at
                  > app_state.active_tasks[t].completed_at
    /\ app_state.response.endpoint = "/api/v1/tasks/{task_id}"
    /\ app_state.response.status_code = 200

\* C39: API authentication.  A request to any /api/v1 endpoint whose bearer
\* token is not the configured token is rejected with 401 and changes
\* neither active_tasks nor registered_nodes; of the requests without a
\* token only those to /health are served.
C39_Authentication ==
    [][ Handled =>
          LET response == app_state'.response
          IN  /\ ( /\ response.endpoint \in ApiEndpoints
                   /\ response.credentials \notin {"absent", APIToken} )
                     => /\ response.status_code = 401
                        /\ RegistriesUnchanged
              /\ response.credentials = "absent"
                     => \/ response.endpoint = "/health"
                        \/ /\ response.status_code \in {401, 403}
                           /\ RegistriesUnchanged
      ]_vars

\* With a task and a node in place, a registration carrying another token
\* was rejected with 401.
C39_Witness ==
    /\ app_state.response.endpoint = "/api/v1/fleet/register"
    /\ app_state.response.credentials = "wrong-token"
    /\ app_state.response.status_code = 401
    /\ DOMAIN app_state.active_tasks # {}
    /\ DOMAIN app_state.registered_nodes # {}

\* C40: fleet deploy validation.  A deploy request (of an authenticated
\* caller) naming any target that is not a registered node id is rejected
\* with status 400 and leaves active_tasks and registered_nodes unchanged; a
\* request whose targets are all registered adds exactly one task, in
\* status pending.
C40_DeployValidation ==
    [][ ( /\ Handled
          /\ app_state'.response.endpoint = "/api/v1/fleet/deploy"
          /\ app_state'.response.credentials = APIToken )
          => IF \E t \in Range(app_state'.response.request) :
                    t \notin DOMAIN app_state.registered_nodes
             THEN /\ app_state'.response.status_code = 400
                  /\ RegistriesUnchanged
             ELSE /\ app_state'.response.status_code = 200
                  /\ app_state'.registered_nodes = app_state.registered_nodes
                  /\ \E t \in DOMAIN app_state'.active_tasks :
                         /\ t \notin DOMAIN app_state.active_tasks
                         /\ DOMAIN app_state'.active_tasks
                                = DOMAIN app_state.active_tasks \cup {t}
                         /\ app_state'.active_tasks[t].status = "pending"
                         /\ \A u \in DOMAIN app_state.active_tasks :
                                app_state'.active_tasks[u]
                                    = app_state.active_tasks[u]
      ]_vars

\* A deployment to two registered nodes was accepted and is the only task.
C40_Witness ==
    /\ app_state.response.endpoint = "/api/v1/fleet/deploy"
    /\ app_state.response.status_code = 200
    /\ Len(app_state.response.request) = 2
    /\ app_state.response.request[1] # app_state.response.request[2]
    /\ Cardinality(DOMAIN app_state.active_tasks) = 1

====
